---- MODULE Spec2Model ----
(***************************************************************************)
(* svg-scale: the scaling engine (numeric formatter, path grammar scaler,  *)
(* transform algebra, style cascade) as a state machine.                   *)
(*                                                                         *)
(* Text is a sequence of one-character strings, so that tokenising,        *)
(* formatting and trimming are computed character by character as the     *)
(* Rust code does.  An f64 is a signed decimal  (-1)^neg * m * 10^x  (or   *)
(* inf / NaN); products and sums are exact.  Within the bounds below every *)
(* product is either exactly representable or not halfway between two      *)
(* outputs of the formatter (PathRoundingExact, TransformRoundingExact),   *)
(* so the exact decimal and the f64 format to the same digits.             *)
(*                                                                         *)
(* One invocation is one behaviour: Init draws the call (the function and  *)
(* its arguments), the function's action computes the returned value.      *)
(* A value computed once and read several times is passed as an operator   *)
(* argument, as a local variable of the Rust function is.                  *)
(***************************************************************************)
EXTENDS Integers, Sequences, FiniteSets, TLC

VARIABLES call, ret

vars == <<call, ret>>

(***************************************************************************)
(* Characters and text                                                     *)
(***************************************************************************)
DigitChars == <<"0", "1", "2", "3", "4", "5", "6", "7", "8", "9">>

is_ascii_digit(c) == c \in {"0", "1", "2", "3", "4", "5", "6", "7", "8", "9"}

DigitVal(c) == (CHOOSE i \in 1..10 : DigitChars[i] = c) - 1

LowerAlpha ==
  {"a","b","c","d","e","f","g","h","i","j","k","l","m",
   "n","o","p","q","r","s","t","u","v","w","x","y","z"}

UpperAlpha ==
  {"A","B","C","D","E","F","G","H","I","J","K","L","M",
   "N","O","P","Q","R","S","T","U","V","W","X","Y","Z"}

is_ascii_alphabetic(c) == c \in LowerAlpha \/ c \in UpperAlpha

\* char::is_whitespace on the characters the model uses
is_whitespace(c) == c \in {" ", "\t", "\n"}

RECURSIVE Concat(_)
Concat(ss) == IF ss = <<>> THEN <<>> ELSE Head(ss) \o Concat(Tail(ss))

RECURSIVE Repeat(_, _)
Repeat(c, n) == IF n <= 0 THEN <<>> ELSE <<c>> \o Repeat(c, n - 1)

Slice(s, i, j) == IF j < i THEN <<>> ELSE SubSeq(s, i, j)

\* str::trim_end_matches(c)
RECURSIVE trim_end_matches(_, _)
trim_end_matches(s, c) ==
  IF s # <<>> /\ s[Len(s)] = c
  THEN trim_end_matches(SubSeq(s, 1, Len(s) - 1), c)
  ELSE s

\* First index >= i of s whose character is not a digit (Len(s)+1 if none)
RECURSIVE SpanDigits(_, _)
SpanDigits(s, i) ==
  IF i <= Len(s) /\ is_ascii_digit(s[i]) THEN SpanDigits(s, i + 1) ELSE i

\* the least element of a set of indices (0 if it is empty)
FirstOf(hits) == IF hits = {} THEN 0 ELSE CHOOSE p \in hits : \A q \in hits : p <= q

\* First index >= i of s whose character is in cs (0 if none)
IndexFrom(s, cs, i) == FirstOf({p \in i..Len(s) : s[p] \in cs})

\* ASCII case folding of the letters of "nan", "inf", "infinity"
ToLower(c) ==
  CASE c = "N" -> "n" [] c = "A" -> "a" [] c = "I" -> "i" [] c = "F" -> "f"
    [] c = "T" -> "t" [] c = "Y" -> "y"
    [] OTHER -> c

LowerText(s) == [i \in 1..Len(s) |-> ToLower(s[i])]

(***************************************************************************)
(* f64 values                                                              *)
(***************************************************************************)
Fin(neg, m, x) == [k |-> "fin", neg |-> neg, m |-> m, x |-> x]
NaN == [k |-> "nan", neg |-> FALSE, m |-> 0, x |-> 0]
Inf(neg) == [k |-> "inf", neg |-> neg, m |-> 0, x |-> 0]

RECURSIVE Pow10(_)
Pow10(n) == IF n <= 0 THEN 1 ELSE 10 * Pow10(n - 1)

RECURSIVE Pow5(_)
Pow5(n) == IF n <= 0 THEN 1 ELSE 5 * Pow5(n - 1)

Min2(a, b) == IF a < b THEN a ELSE b
Abs(n) == IF n < 0 THEN -n ELSE n

IsZero(v) == v.k = "fin" /\ v.m = 0

FinProduct(neg, m, x) == Fin(neg, m, IF m = 0 THEN 0 ELSE x)

\* f64 multiplication
FMul(a, b) ==
  IF a.k = "nan" \/ b.k = "nan" THEN NaN
  ELSE IF a.k = "inf" \/ b.k = "inf"
       THEN IF IsZero(a) \/ IsZero(b) THEN NaN ELSE Inf(a.neg # b.neg)
       ELSE FinProduct(a.neg # b.neg, a.m * b.m, a.x + b.x)

Signed(v, x) == (IF v.neg THEN -1 ELSE 1) * v.m * Pow10(v.x - x)

FinSum(s, x) == IF s = 0 THEN Fin(FALSE, 0, 0) ELSE Fin(s < 0, Abs(s), x)

FinAdd(a, b, x) == FinSum(Signed(a, x) + Signed(b, x), x)

\* f64 addition
FAdd(a, b) ==
  IF a.k = "nan" \/ b.k = "nan" THEN NaN
  ELSE IF a.k = "inf" /\ b.k = "inf"
       THEN IF a.neg = b.neg THEN a ELSE NaN
  ELSE IF a.k = "inf" THEN a
  ELSE IF b.k = "inf" THEN b
  ELSE IF a.m = 0 /\ b.m = 0 THEN Fin(a.neg /\ b.neg, 0, 0)
  ELSE IF a.m = 0 THEN b
  ELSE IF b.m = 0 THEN a
  ELSE FinAdd(a, b, Min2(a.x, b.x))

\* f64 negation
FNeg(a) == [a EXCEPT !.neg = ~a.neg]

\* a and b are the same number (0 and -0 are)
SameNumber(a, b) ==
  IF a.k # "fin" \/ b.k # "fin" THEN a.k = b.k /\ a.k = "inf" /\ a.neg = b.neg
  ELSE IF a.m = 0 \/ b.m = 0 THEN a.m = b.m
  ELSE Signed(a, Min2(a.x, b.x)) = Signed(b, Min2(a.x, b.x))

\* v is a binary fraction (an f64 holds it exactly)
IsDyadic(v) == v.k # "fin" \/ v.x >= 0 \/ v.m % Pow5(-v.x) = 0

\* v lies exactly halfway between two decimals of `precision` digits
IsTie(v, precision) ==
  /\ v.k = "fin" /\ v.m # 0
  /\ v.x + precision < 0
  /\ -(v.x + precision) <= 9
  /\ 2 * (v.m % Pow10(-(v.x + precision))) = Pow10(-(v.x + precision))

\* No f64 has the value of a decimal that is not a binary fraction: the
\* f64 next to it is not halfway, and rounds by its binary error.
Representable(v, precision) == IsDyadic(v) \/ ~IsTie(v, precision)

(***************************************************************************)
(* Decimal text <-> value                                                  *)
(***************************************************************************)
RECURSIVE DigitsToNat(_)
DigitsToNat(s) ==
  IF s = <<>> THEN 0
  ELSE 10 * DigitsToNat(SubSeq(s, 1, Len(s) - 1)) + DigitVal(s[Len(s)])

RECURSIVE NatToDigits(_)
NatToDigits(n) ==
  IF n < 10 THEN <<DigitChars[n + 1]>>
  ELSE NatToDigits(n \div 10) \o <<DigitChars[(n % 10) + 1]>>

\* f64 range: a decimal of more than 309 integer digits is inf, one below
\* 1e-324 is 0 (no text of the bounded inputs lies between the exact limits
\* and these powers of ten)
F64Ranged(neg, m, x, mag) ==
  IF mag > 309 THEN Inf(neg)
  ELSE IF mag < -324 THEN Fin(neg, 0, 0)
  ELSE Fin(neg, m, x)

F64Of(neg, m, x) ==
  IF m = 0 THEN Fin(neg, 0, 0) ELSE F64Ranged(neg, m, x, Len(NatToDigits(m)) + x)

F64OfDigits(neg, intD, fracD, ex) ==
  F64Of(neg, DigitsToNat(intD \o fracD), ex - Len(fracD))

F64OfMantissa(neg, mant, dot, ex) ==
  IF dot = 0 THEN F64OfDigits(neg, mant, <<>>, ex)
  ELSE F64OfDigits(neg, Slice(mant, 1, dot - 1), Slice(mant, dot + 1, Len(mant)), ex)

ExponentValue(expT) ==
  IF expT # <<>> /\ expT[1] = "-" THEN -DigitsToNat(Tail(expT))
  ELSE IF expT # <<>> /\ expT[1] = "+" THEN DigitsToNat(Tail(expT))
  ELSE DigitsToNat(expT)

F64OfParts(neg, mant, expT) ==
  F64OfMantissa(neg, mant, IndexFrom(mant, {"."}, 1), ExponentValue(expT))

F64OfBody(neg, body, ePos) ==
  IF ePos = 0 THEN F64OfParts(neg, body, <<>>)
  ELSE F64OfParts(neg, Slice(body, 1, ePos - 1), Slice(body, ePos + 1, Len(body)))

F64OfUnsigned(neg, body) == F64OfBody(neg, body, IndexFrom(body, {"e", "E"}, 1))

\* <f64 as FromStr>::from_str on a text the float grammar accepted
parse_f64(raw) ==
  IF LowerText(raw) = <<"n","a","n">> THEN NaN
  ELSE IF LowerText(raw) \in {<<"i","n","f">>, <<"i","n","f","i","n","i","t","y">>}
       THEN Inf(FALSE)
  ELSE IF raw # <<>> /\ raw[1] \in {"+", "-"}
       THEN F64OfUnsigned(raw[1] = "-", Tail(raw))
       ELSE F64OfUnsigned(FALSE, raw)

RoundQuotient(q, r, p) ==
  IF 2 * r > p \/ (2 * r = p /\ q % 2 = 1) THEN q + 1 ELSE q

\* round-half-to-even of m / 10^drop, drop >= 1
RoundHalfEven(m, drop) ==
  IF drop > 9 THEN 0
  ELSE RoundQuotient(m \div Pow10(drop), m % Pow10(drop), Pow10(drop))

\* the digits of round(|v| * 10^precision)
ScaledDigits(v, precision) ==
  IF v.m = 0 THEN <<"0">>
  ELSE IF v.x + precision >= 0
       THEN NatToDigits(v.m) \o Repeat("0", v.x + precision)
       ELSE NatToDigits(RoundHalfEven(v.m, -(v.x + precision)))

PointAt(neg, padded, precision) ==
  (IF neg THEN <<"-">> ELSE <<>>)
    \o Slice(padded, 1, Len(padded) - precision)
    \o (IF precision > 0
        THEN <<".">> \o Slice(padded, Len(padded) - precision + 1, Len(padded))
        ELSE <<>>)

PadDigits(neg, q, precision) ==
  PointAt(neg, Repeat("0", precision + 1 - Len(q)) \o q, precision)

\* format!("{:.*}", precision, v)
format_fixed(v, precision) ==
  IF v.k = "nan" THEN <<"N","a","N">>
  ELSE IF v.k = "inf"
       THEN (IF v.neg THEN <<"-">> ELSE <<>>) \o <<"i","n","f">>
  ELSE PadDigits(v.neg, ScaledDigits(v, precision), precision)

(***************************************************************************)
(* Numeric formatter                                                       *)
(***************************************************************************)
\* ScaleCtx::fmt
fmt(ctx, v) ==
  trim_end_matches(trim_end_matches(format_fixed(v, ctx.precision), "0"), ".")

\* transform.rs fmt_num
fmt_num(v, precision) ==
  trim_end_matches(trim_end_matches(format_fixed(v, precision), "0"), ".")

ScaleCtx(scale, precision, fix_stroke) ==
  [scale |-> scale, precision |-> precision, fix_stroke |-> fix_stroke]

(***************************************************************************)
(* Path grammar scaler: tokens                                             *)
(***************************************************************************)
\* one_of("MmZzLlHhVvCcSsQqTtAa")
path_commands ==
  {"M","m","Z","z","L","l","H","h","V","v","C","c","S","s","Q","q","T","t","A","a"}

is_sep_char(c) ==
  ~is_ascii_alphabetic(c) /\ c # "-" /\ c # "+" /\ c # "." /\ ~is_ascii_digit(c)

\* take_while1(is_sep_char): first index >= i that is no separator character
RECURSIVE SpanSep(_, _)
SpanSep(s, i) ==
  IF i <= Len(s) /\ is_sep_char(s[i]) THEN SpanSep(s, i + 1) ELSE i

POk(end)  == [r |-> "ok", end |-> end]
PError    == [r |-> "error", end |-> 0]
PFailure  == [r |-> "failure", end |-> 0]

\* opt(alt((char('+'), char('-'))))
SkipSign(s, i) == IF i <= Len(s) /\ s[i] \in {"+", "-"} THEN i + 1 ELSE i

\* digit1 opt(pair(char('.'), opt(digit1))), the digit1 ending before d1
MantissaInt(s, d1) ==
  IF d1 <= Len(s) /\ s[d1] = "." THEN SpanDigits(s, d1 + 1) ELSE d1

\* tuple((char('.'), digit1)), the digits after the dot ending before f1
MantissaDot(s, i1, f1) ==
  IF i1 <= Len(s) /\ s[i1] = "." /\ f1 > i1 + 1 THEN f1 ELSE 0

MantissaFrom(s, i1, d1) ==
  IF d1 > i1 THEN MantissaInt(s, d1) ELSE MantissaDot(s, i1, SpanDigits(s, i1 + 1))

\* end of the mantissa that starts at i1 (0: no mantissa)
MantissaEnd(s, i1) == MantissaFrom(s, i1, SpanDigits(s, i1))

\* cut(digit1): once the exponent marker is read, no digits is a Failure
ExponentDigits(j, k) == IF k > j THEN POk(k) ELSE PFailure

\* opt(tuple((one of eE, opt(sign), cut(digit1))))
FloatExponent(s, mEnd) ==
  IF mEnd = 0 THEN PError
  ELSE IF mEnd <= Len(s) /\ s[mEnd] \in {"e", "E"}
       THEN ExponentDigits(SkipSign(s, mEnd + 1), SpanDigits(s, SkipSign(s, mEnd + 1)))
       ELSE POk(mEnd)

\* nom::number::complete::recognize_float at index i of s
recognize_float(s, i) == FloatExponent(s, MantissaEnd(s, SkipSign(s, i)))

\* nom tag_no_case(t) at index i of s
tag_no_case(s, i, t) ==
  i + Len(t) - 1 <= Len(s) /\ LowerText(SubSeq(s, i, i + Len(t) - 1)) = t

\* the alternatives after the float grammar: "nan", then "inf" ("infinity"
\* comes after "inf" and so never matches more than "inf")
FloatOrException(s, i, f) ==
  IF f.r # "error" THEN f
  ELSE IF tag_no_case(s, i, <<"n","a","n">>) THEN POk(i + 3)
  ELSE IF tag_no_case(s, i, <<"i","n","f">>) THEN POk(i + 3)
  ELSE PError

\* nom::number::complete::double, as recognize(double) uses it
double(s, i) == FloatOrException(s, i, recognize_float(s, i))

NoVal == Fin(FALSE, 0, 0)
Part(kind, raw, val) == [kind |-> kind, raw |-> raw, val |-> val]
NoPart(r) == [r |-> r, end |-> 0, part |-> Part("none", <<>>, NoVal)]

SepUpTo(s, i, j) ==
  IF j > i
  THEN [r |-> "ok", end |-> j, part |-> Part("Sep", SubSeq(s, i, j - 1), NoVal)]
  ELSE NoPart("error")

parse_sep(s, i) == SepUpTo(s, i, SpanSep(s, i))

parse_cmd(s, i) ==
  IF i <= Len(s) /\ s[i] \in path_commands
  THEN [r |-> "ok", end |-> i + 1, part |-> Part("Cmd", <<s[i]>>, NoVal)]
  ELSE NoPart("error")

NumOfRaw(end, raw) ==
  [r |-> "ok", end |-> end, part |-> Part("Num", raw, parse_f64(raw))]

NumOfFloat(s, i, f) ==
  IF f.r = "ok" THEN NumOfRaw(f.end, SubSeq(s, i, f.end - 1)) ELSE NoPart(f.r)

parse_num(s, i) == NumOfFloat(s, i, double(s, i))

\* alt((parse_cmd, parse_num, parse_sep)): the first success; an Error moves
\* on to the next alternative, a Failure ends the alternation
AltAfterNum(s, i, n) == IF n.r # "error" THEN n ELSE parse_sep(s, i)

AltAfterCmd(s, i, c) == IF c.r = "ok" THEN c ELSE AltAfterNum(s, i, parse_num(s, i))

alt_part(s, i) == AltAfterCmd(s, i, parse_cmd(s, i))

\* many0(alt(..)) from index i: stops with what is left at the first Error,
\* fails as a whole on a Failure.  rest is the index of the first unconsumed
\* character (on a Failure: where the failing token starts).
RECURSIVE many0_parts(_, _, _)
Many0Step(s, i, acc, t) ==
  IF t.r = "ok" THEN many0_parts(s, t.end, Append(acc, t.part))
  ELSE [r |-> t.r, rest |-> i, parts |-> acc]

many0_parts(s, i, acc) == Many0Step(s, i, acc, alt_part(s, i))

parse_parts(input) == many0_parts(input, 1, <<>>)

(***************************************************************************)
(* Path grammar scaler: errors                                             *)
(***************************************************************************)
ClassifyChar(c) ==
  IF is_ascii_alphabetic(c) /\ c \notin path_commands THEN "invalid command"
  ELSE IF is_ascii_digit(c) \/ c \in {"-", "+", ".", "e", "E"} THEN "invalid number"
  ELSE IF is_whitespace(c) \/ c = "," THEN "invalid separator"
  ELSE "unexpected token"

\* a character outside ASCII is written by its code point; these are the
\* two-byte U+00E9 and the three-byte U+20AC
TwoByteChars   == {"U+00E9"}
ThreeByteChars == {"U+20AC"}

\* char::len_utf8
len_utf8(c) == IF c \in TwoByteChars THEN 2 ELSE IF c \in ThreeByteChars THEN 3 ELSE 1

\* the byte offset of the end of the first n characters of input
RECURSIVE byte_offset(_, _)
byte_offset(input, n) ==
  IF n = 0 THEN 0 ELSE byte_offset(input, n - 1) + len_utf8(input[n])

\* str::len: the length in bytes
byte_len(input) == byte_offset(input, Len(input))

\* str::is_char_boundary
is_char_boundary(input, b) == \E n \in 0..Len(input) : byte_offset(input, n) = b

\* the number of characters before the character boundary b
chars_before(input, b) == CHOOSE n \in 0..Len(input) : byte_offset(input, n) = b

\* lines 66-107: rest = &input[pos..], c = rest.chars().next()
classify_path_error(input, pos) ==
  IF pos >= byte_len(input) THEN "unexpected end of input"
  ELSE ClassifyChar(input[chars_before(input, pos) + 1])

\* lines 55-63 for start = pos.saturating_sub(10), end = (pos + 10).min(len):
\* &input[start..end] panics unless both are character boundaries
FormatSnippet(input, pos, start, end) ==
  IF ~(is_char_boundary(input, start) /\ is_char_boundary(input, end))
  THEN [st |-> "panic"]
  ELSE [st |-> "err", pos |-> pos,
        char_index |-> chars_before(input, pos),
        snippet |-> Slice(input, chars_before(input, start) + 1, chars_before(input, end)),
        reason |-> classify_path_error(input, pos)]

format_path_error(input, pos) ==
  FormatSnippet(input, pos, IF pos > 10 THEN pos - 10 ELSE 0, Min2(pos + 10, byte_len(input)))

(***************************************************************************)
(* Path grammar scaler: rewriting                                          *)
(***************************************************************************)
should_scale_rotation(cmd, param_index) ==
  IF cmd \in {"A", "a"} THEN (param_index % 7) \in {0, 1, 2, 5, 6} ELSE TRUE

\* lines 34-40: under A/a only parameters 0, 1, 5, 6 of each group of 7
should_scale(cmd, param_index) ==
  IF cmd \in {"A", "a"} THEN (param_index % 7) \in {0, 1, 5, 6} ELSE TRUE

sep_text_collapsed(part) == IF part.raw = <<>> THEN <<>> ELSE <<part.raw[1]>>

\* line 27: a separator is pushed as it is
sep_text(part) == part.raw

\* lines 41-45
num_text(part, cmd, param_index, ctx) ==
  IF should_scale(cmd, param_index)
  THEN fmt(ctx, FMul(part.val, ctx.scale))
  ELSE part.raw

\* the for loop of scale_path over parts[i..], with its locals
RECURSIVE scale_parts(_, _, _, _, _, _)
scale_parts(parts, i, cmd, param_index, out, ctx) ==
  IF i > Len(parts) THEN out
  ELSE IF parts[i].kind = "Sep"
       THEN scale_parts(parts, i + 1, cmd, param_index, out \o sep_text(parts[i]), ctx)
  ELSE IF parts[i].kind = "Cmd"
       THEN scale_parts(parts, i + 1, parts[i].raw[1], 0, out \o parts[i].raw, ctx)
  ELSE scale_parts(parts, i + 1, cmd, param_index + 1,
                   out \o num_text(parts[i], cmd, param_index, ctx), ctx)

\* lines 8-19: pos = d.len() - rest.len(), in bytes
ScaleParsed(d, ctx, p) ==
  IF p.r = "failure" THEN format_path_error(d, byte_offset(d, p.rest - 1))
  ELSE IF p.rest <= Len(d) THEN format_path_error(d, byte_offset(d, p.rest - 1))
  ELSE [st |-> "ok", out |-> scale_parts(p.parts, 1, "none", 0, <<>>, ctx)]

scale_path(d, ctx) == ScaleParsed(d, ctx, parse_parts(d))

(***************************************************************************)
(* Transform algebra: parsing a transform list                             *)
(***************************************************************************)
name_translate == <<"t","r","a","n","s","l","a","t","e">>
name_scale     == <<"s","c","a","l","e">>
name_rotate    == <<"r","o","t","a","t","e">>
name_skewX     == <<"s","k","e","w","X">>
name_skewY     == <<"s","k","e","w","Y">>
name_matrix    == <<"m","a","t","r","i","x">>

Transform(name, params) == [name |-> name, params |-> params]

is_name_char(c) == is_ascii_alphabetic(c)

\* take_while1(is_name_char): first index >= i that is no name character
RECURSIVE SpanName(_, _)
SpanName(s, i) ==
  IF i <= Len(s) /\ is_name_char(s[i]) THEN SpanName(s, i + 1) ELSE i

\* nom space0 / space1: spaces and tabs
RECURSIVE SpanSpace(_, _)
SpanSpace(s, i) ==
  IF i <= Len(s) /\ s[i] \in {" ", "\t"} THEN SpanSpace(s, i + 1) ELSE i

\* alt((space0 ',' space0, space1)) with the leading spaces ending before j;
\* the index after the separator, 0 when there is none
SepAfterSpace(s, i, j) ==
  IF j <= Len(s) /\ s[j] = "," THEN SpanSpace(s, j + 1)
  ELSE IF j > i THEN j
  ELSE 0

sep(s, i) == SepAfterSpace(s, i, SpanSpace(s, i))

\* nom double at j: the f64 of the recognised text
ParamAt(s, j, d) ==
  IF d.r = "ok" THEN [r |-> "ok", end |-> d.end, val |-> parse_f64(SubSeq(s, j, d.end - 1))]
  ELSE [r |-> d.r, end |-> 0, val |-> NoVal]

ParamsOk(end, params) == [r |-> "ok", end |-> end, params |-> params]
ParamsFailure == [r |-> "failure", end |-> 0, params |-> <<>>]

\* separated_list0(sep, double) after an element that ended before i: a
\* separator that no number follows is left unconsumed
RECURSIVE ParamsRest(_, _, _)
ParamsNext(s, i, acc, p) ==
  IF p.r = "ok" THEN ParamsRest(s, p.end, Append(acc, p.val))
  ELSE IF p.r = "error" THEN ParamsOk(i, acc)
  ELSE ParamsFailure

ParamsAfterSep(s, i, acc, j) ==
  IF j = 0 THEN ParamsOk(i, acc) ELSE ParamsNext(s, i, acc, ParamAt(s, j, double(s, j)))

ParamsRest(s, i, acc) == ParamsAfterSep(s, i, acc, sep(s, i))

ParamsFirst(s, i, p) ==
  IF p.r = "ok" THEN ParamsRest(s, p.end, <<p.val>>)
  ELSE IF p.r = "error" THEN ParamsOk(i, <<>>)
  ELSE ParamsFailure

params_list(s, i) == ParamsFirst(s, i, ParamAt(s, i, double(s, i)))

FnOk(end, t) == [r |-> "ok", end |-> end, t |-> t]
FnNone(r)    == [r |-> r, end |-> 0, t |-> Transform(<<>>, <<>>)]

\* tuple((space0, char(')'))) after the parameters
FnClose(s, name, pl, c) ==
  IF c <= Len(s) /\ s[c] = ")" THEN FnOk(c + 1, Transform(name, pl.params))
  ELSE FnNone("error")

FnParams(s, name, pl) ==
  IF pl.r = "ok" THEN FnClose(s, name, pl, SpanSpace(s, pl.end)) ELSE FnNone(pl.r)

\* tuple((space0, char('('), space0)) with the spaces ending before p
FnOpen(s, name, p) ==
  IF p <= Len(s) /\ s[p] = "("
  THEN FnParams(s, name, params_list(s, SpanSpace(s, p + 1)))
  ELSE FnNone("error")

FnName(s, i, n) ==
  IF n > i THEN FnOpen(s, SubSeq(s, i, n - 1), SpanSpace(s, n)) ELSE FnNone("error")

transform_fn(s, i) == FnName(s, i, SpanName(s, i))

\* many0(preceded(space0, transform_fn)) from index i: at the first Error the
\* list ends and i is where the rest starts (the spaces are given back)
RECURSIVE transform_list(_, _, _)
TransformListStep(s, i, acc, f) ==
  IF f.r = "ok" THEN transform_list(s, f.end, Append(acc, f.t))
  ELSE [r |-> f.r, rest |-> i, list |-> acc]

transform_list(s, i, acc) ==
  TransformListStep(s, i, acc, transform_fn(s, SpanSpace(s, i)))

\* all_consuming(terminated(.., space0))
ParsedAll(s, l) ==
  IF l.r # "failure" /\ SpanSpace(s, l.rest) = Len(s) + 1
  THEN [st |-> "ok", list |-> l.list]
  ELSE [st |-> "err", reason |-> "invalid transform"]

parse_transform_list(input) ==
  ParsedAll(input, transform_list(input, SpanSpace(input, 1), <<>>))

(***************************************************************************)
(* Transform algebra: composition and rewriting                            *)
(***************************************************************************)
Zero == Fin(FALSE, 0, 0)
One  == Fin(FALSE, 1, 0)

\* params.get(k - 1).copied().unwrap_or(default)
get_or(params, k, default) == IF k <= Len(params) THEN params[k] ELSE default

mat_mul_swapped(a, b) ==
  << FAdd(FMul(b[1], a[1]), FMul(b[3], a[2])),
     FAdd(FMul(b[2], a[1]), FMul(b[4], a[2])),
     FAdd(FMul(b[1], a[3]), FMul(b[3], a[4])),
     FAdd(FMul(b[2], a[3]), FMul(b[4], a[4])),
     FAdd(FAdd(FMul(b[1], a[5]), FMul(b[3], a[6])), b[5]),
     FAdd(FAdd(FMul(b[2], a[5]), FMul(b[4], a[6])), b[6]) >>

\* [a, b, c, d, e, f] at indices 1..6
mat_mul(a, b) ==
  << FAdd(FMul(a[1], b[1]), FMul(a[3], b[2])),
     FAdd(FMul(a[2], b[1]), FMul(a[4], b[2])),
     FAdd(FMul(a[1], b[3]), FMul(a[3], b[4])),
     FAdd(FMul(a[2], b[3]), FMul(a[4], b[4])),
     FAdd(FAdd(FMul(a[1], b[5]), FMul(a[3], b[6])), a[5]),
     FAdd(FAdd(FMul(a[2], b[5]), FMul(a[4], b[6])), a[6]) >>

\* angle.to_radians().cos(), .sin(), .tan(): the angle 0 is the one angle
\* whose images are exact decimals; no other angle is drawn
cos_deg(angle) == CASE IsZero(angle) -> One
sin_deg(angle) == CASE IsZero(angle) -> angle
tan_deg(angle) == CASE IsZero(angle) -> angle

Identity == <<One, Zero, Zero, One, Zero, Zero>>

MatOk(m)       == [st |-> "ok", m |-> m]
MatErr(reason) == [st |-> "err", reason |-> reason]

\* lines 86-95, r = [cos, sin, -sin, cos, 0, 0]
rotate_matrix(params, r) ==
  IF Len(params) >= 3
  THEN mat_mul(<<One, Zero, Zero, One, params[2], params[3]>>,
               mat_mul(r, <<One, Zero, Zero, One, FNeg(params[2]), FNeg(params[3])>>))
  ELSE r

rotate_by(params, cos, sin) == rotate_matrix(params, <<cos, sin, FNeg(sin), cos, Zero, Zero>>)

scale_matrix(params, sx) == <<sx, Zero, Zero, get_or(params, 2, sx), Zero, Zero>>

\* the match of lines 70-122 for one op
op_matrix(t) ==
  IF t.name = name_translate
  THEN MatOk(<<One, Zero, Zero, One, get_or(t.params, 1, Zero), get_or(t.params, 2, Zero)>>)
  ELSE IF t.name = name_scale
  THEN MatOk(scale_matrix(t.params, get_or(t.params, 1, One)))
  ELSE IF t.name = name_rotate
  THEN MatOk(rotate_by(t.params, cos_deg(get_or(t.params, 1, Zero)),
                       sin_deg(get_or(t.params, 1, Zero))))
  ELSE IF t.name = name_skewX
  THEN MatOk(<<One, Zero, tan_deg(get_or(t.params, 1, Zero)), One, Zero, Zero>>)
  ELSE IF t.name = name_skewY
  THEN MatOk(<<One, tan_deg(get_or(t.params, 1, Zero)), Zero, One, Zero, Zero>>)
  ELSE IF t.name = name_matrix
  THEN IF Len(t.params) < 6
       THEN MatErr("matrix() requires 6 parameters")
       ELSE MatOk(SubSeq(t.params, 1, 6))
  ELSE MatErr("unsupported transform")

\* the loop of transform_to_matrix over list[i..], m the product so far
RECURSIVE compose_from(_, _, _)
ComposeStep(list, i, m, mi) ==
  IF mi.st = "ok" THEN compose_from(list, i + 1, mat_mul(m, mi.m)) ELSE mi

RECURSIVE compose_from_premultiplied(_, _, _)
compose_from_premultiplied(list, i, m) ==
  IF i > Len(list) THEN MatOk(m)
  ELSE IF op_matrix(list[i]).st = "ok"
       THEN compose_from_premultiplied(list, i + 1, mat_mul(op_matrix(list[i]).m, m))
  ELSE op_matrix(list[i])

\* lines 68-125: m = mat_mul(m, mi) for every op in turn
compose_from(list, i, m) ==
  IF i > Len(list) THEN MatOk(m) ELSE ComposeStep(list, i, m, op_matrix(list[i]))

transform_to_matrix(list) == compose_from(list, 1, Identity)

\* v.abs() < 1e-12, for v = m * 10^x
BelowNoise(v) ==
  /\ v.k = "fin"
  /\ \/ v.m = 0
     \/ v.x + 12 < -9
     \/ v.x + 12 < 0 /\ v.m < Pow10(-(v.x + 12))

clean_matrix_value(v) == IF BelowNoise(v) THEN Zero ELSE v

\* format!("name({})"), format!("name({},{})")
Fn1Text(name, a)    == name \o <<"(">> \o a \o <<")">>
Fn2Text(name, a, b) == name \o <<"(">> \o a \o <<",">> \o b \o <<")">>

scale_single_one_arg(t, scale, precision) ==
  Fn1Text(name_scale, fmt_num(FMul(get_or(t.params, 1, One), scale), precision))

\* lines 151-160, sx its local
ScaleSingleText(t, sx, scale, precision) ==
  IF Len(t.params) >= 2
  THEN Fn2Text(name_scale, fmt_num(FMul(sx, scale), precision),
               fmt_num(FMul(get_or(t.params, 2, sx), scale), precision))
  ELSE Fn1Text(name_scale, fmt_num(FMul(sx, scale), precision))

scale_single(t, scale, precision) ==
  ScaleSingleText(t, get_or(t.params, 1, One), scale, precision)

\* lines 165-173
matrix_text(m, scale, precision) ==
  name_matrix \o <<"(">>
    \o fmt_num(clean_matrix_value(FMul(m[1], scale)), precision) \o <<",">>
    \o fmt_num(clean_matrix_value(FMul(m[2], scale)), precision) \o <<",">>
    \o fmt_num(clean_matrix_value(FMul(m[3], scale)), precision) \o <<",">>
    \o fmt_num(clean_matrix_value(FMul(m[4], scale)), precision) \o <<",">>
    \o fmt_num(clean_matrix_value(FMul(m[5], scale)), precision) \o <<",">>
    \o fmt_num(clean_matrix_value(FMul(m[6], scale)), precision) \o <<")">>

MatrixResult(mr, scale, precision) ==
  IF mr.st = "ok" THEN [st |-> "ok", out |-> matrix_text(mr.m, scale, precision)] ELSE mr

translate_part_two_args(t, scale, precision) ==
  Fn2Text(name_translate,
          fmt_num(FMul(get_or(t.params, 1, Zero), scale), precision),
          fmt_num(FMul(get_or(t.params, 2, Zero), scale), precision))

\* lines 181-191
translate_part(t, scale, precision) ==
  IF Len(t.params) >= 2
  THEN Fn2Text(name_translate,
               fmt_num(FMul(get_or(t.params, 1, Zero), scale), precision),
               fmt_num(FMul(get_or(t.params, 2, Zero), scale), precision))
  ELSE Fn1Text(name_translate,
               fmt_num(FMul(get_or(t.params, 1, Zero), scale), precision))

\* the loop of lines 177-192 over list[i..]
RECURSIVE translate_parts(_, _, _, _, _)
translate_parts(list, i, parts, scale, precision) ==
  IF i > Len(list) THEN parts
  ELSE IF list[i].name # name_translate
       THEN translate_parts(list, i + 1, parts, scale, precision)
       ELSE translate_parts(list, i + 1,
                            Append(parts, translate_part(list[i], scale, precision)),
                            scale, precision)

\* parts.join(" ")
RECURSIVE JoinFrom(_, _, _)
JoinFrom(parts, i, sepText) ==
  IF i > Len(parts) THEN <<>>
  ELSE IF i = Len(parts) THEN parts[i]
  ELSE parts[i] \o sepText \o JoinFrom(parts, i + 1, sepText)

join(parts, sepText) == JoinFrom(parts, 1, sepText)

has_non_translate(list) == \E i \in 1..Len(list) : list[i].name # name_translate

\* lines 143-193 for a parsed list
ScaleList(input, list, scale, precision) ==
  IF list = <<>> THEN [st |-> "ok", out |-> input]
  ELSE IF has_non_translate(list)
       THEN IF Len(list) = 1 /\ list[1].name = name_scale
            THEN [st |-> "ok", out |-> scale_single(list[1], scale, precision)]
            ELSE MatrixResult(transform_to_matrix(list), scale, precision)
       ELSE [st |-> "ok",
             out |-> join(translate_parts(list, 1, <<>>, scale, precision), <<" ">>)]

ScaleParsedList(input, p, scale, precision) ==
  IF p.st = "ok" THEN ScaleList(input, p.list, scale, precision)
  ELSE [st |-> "err", reason |-> "parse transform"]

scale_transform_value(input, scale, precision) ==
  ScaleParsedList(input, parse_transform_list(input), scale, precision)

(***************************************************************************)
(* Style cascade: text helpers                                             *)
(***************************************************************************)
is_ascii_alphanumeric(c) == is_ascii_alphabetic(c) \/ is_ascii_digit(c)

\* first index >= i that is no whitespace
RECURSIVE SkipWs(_, _)
SkipWs(s, i) == IF i <= Len(s) /\ is_whitespace(s[i]) THEN SkipWs(s, i + 1) ELSE i

\* first index >= i that is whitespace (or the end)
SpanWord(s, i) ==
  IF i > Len(s) THEN i
  ELSE FirstOf({p \in i..(Len(s) + 1) : p = Len(s) + 1 \/ is_whitespace(s[p])})

\* last index <= j that is no whitespace
RECURSIVE TrimEndAt(_, _)
TrimEndAt(s, j) == IF j >= 1 /\ is_whitespace(s[j]) THEN TrimEndAt(s, j - 1) ELSE j

\* str::trim
trim(s) == Slice(s, SkipWs(s, 1), TrimEndAt(s, Len(s)))

\* str::split(c), from index i
RECURSIVE split_from(_, _, _)
SplitAt(s, c, i, j) ==
  IF j = 0 THEN <<Slice(s, i, Len(s))>>
  ELSE <<Slice(s, i, j - 1)>> \o split_from(s, c, j + 1)

split_from(s, c, i) == SplitAt(s, c, i, IndexFrom(s, {c}, i))

split(s, c) == split_from(s, c, 1)

\* str::split_whitespace, from index i
RECURSIVE words_from(_, _)
WordAt(s, k) ==
  IF k > Len(s) THEN <<>>
  ELSE <<SubSeq(s, k, SpanWord(s, k) - 1)>> \o words_from(s, SpanWord(s, k))

words_from(s, i) == WordAt(s, SkipWs(s, i))

split_whitespace(s) == words_from(s, 1)

\* the first index >= i where a comment opens (0 if none)
CommentStart(s, i) ==
  FirstOf({p \in i..(Len(s) - 1) : s[p] = "/" /\ s[p + 1] = "*"})

\* the inner loop of strip_css_comments: the index where the search for the
\* end of a comment stops
SkipComment(s, p) ==
  IF p >= Len(s) THEN p
  ELSE FirstOf({q \in p..Len(s) : q = Len(s) \/ (s[q] = "*" /\ s[q + 1] = "/")})

CommentEnd(s, p) == IF p + 1 <= Len(s) THEN p + 2 ELSE p

\* the outer loop from index i: the bytes before the next comment are pushed
\* one by one, the comment is skipped
RECURSIVE strip_from(_, _, _)
StripAt(s, i, start, out) ==
  IF start = 0 THEN out \o Slice(s, i, Len(s))
  ELSE strip_from(s, CommentEnd(s, SkipComment(s, start + 2)),
                  out \o Slice(s, i, start - 1))

strip_from(s, i, out) ==
  IF i > Len(s) THEN out ELSE StripAt(s, i, CommentStart(s, i), out)

strip_css_comments(input) == strip_from(input, 1, <<>>)

\* one part of a style text: key and value around the first ':'
StylePair(part, colon) ==
  IF colon = 0 THEN <<trim(part), <<>>>>
  ELSE <<trim(Slice(part, 1, colon - 1)), trim(Slice(part, colon + 1, Len(part)))>>

KeepPair(pair) == IF pair[1] = <<>> \/ pair[2] = <<>> THEN <<>> ELSE <<pair>>

StylePart(part) ==
  IF part = <<>> THEN <<>> ELSE KeepPair(StylePair(part, IndexFrom(part, {":"}, 1)))

\* the loop of parse_style over parts[i..]
RECURSIVE style_parts(_, _)
style_parts(parts, i) ==
  IF i > Len(parts) THEN <<>>
  ELSE StylePart(trim(parts[i])) \o style_parts(parts, i + 1)

parse_style(input) == style_parts(split(input, ";"), 1)

(***************************************************************************)
(* Style cascade: selectors                                                *)
(***************************************************************************)
\* Option<String>: None is the empty text (an identifier is never empty)
None == <<>>

SimpleSelector(element, id, classes) ==
  [some |-> TRUE, element |-> element, id |-> id, classes |-> classes]

NoSimpleSelector == [some |-> FALSE, element |-> None, id |-> None, classes |-> <<>>]

is_ident_char(c) == is_ascii_alphanumeric(c) \/ c = "-" \/ c = "_"

RECURSIVE SpanIdent(_, _)
SpanIdent(s, i) == IF i <= Len(s) /\ is_ident_char(s[i]) THEN SpanIdent(s, i + 1) ELSE i

\* the while loop of parse_simple_selector from index i, with its locals: a
\* '.' or '#' at i is followed by its identifier (lines 242-268), any other
\* character starts an element name (lines 270-289); an identifier is made
\* of identifier characters, so is_simple_ident holds of it
RECURSIVE simple_from(_, _, _, _, _)
simple_from(sel, i, element, id, classes) ==
  CASE i > Len(sel) ->
         IF element = None /\ id = None /\ classes = <<>>
         THEN NoSimpleSelector
         ELSE SimpleSelector(element, id, classes)
    [] i <= Len(sel) /\ sel[i] = "." /\ SpanIdent(sel, i + 1) > i + 1 ->
         simple_from(sel, SpanIdent(sel, i + 1), element, id,
                     Append(classes, SubSeq(sel, i + 1, SpanIdent(sel, i + 1) - 1)))
    [] i <= Len(sel) /\ sel[i] = "#" /\ SpanIdent(sel, i + 1) > i + 1 /\ id = None ->
         simple_from(sel, SpanIdent(sel, i + 1), element,
                     SubSeq(sel, i + 1, SpanIdent(sel, i + 1) - 1), classes)
    [] i <= Len(sel) /\ sel[i] \notin {".", "#"} /\ SpanIdent(sel, i) > i
         /\ element = None ->
         simple_from(sel, SpanIdent(sel, i), SubSeq(sel, i, SpanIdent(sel, i) - 1),
                     id, classes)
    [] OTHER -> NoSimpleSelector

parse_simple_selector(sel) ==
  IF sel = <<>> THEN NoSimpleSelector
  ELSE IF IndexFrom(sel, {">", "+", "~", "[", "]", ":"}, 1) # 0 THEN NoSimpleSelector
  ELSE simple_from(sel, 1, None, None, <<>>)

StyleSelector(ancestor, relation, target) ==
  [some |-> TRUE, ancestor |-> ancestor, relation |-> relation, target |-> target]

NoStyleSelector ==
  [some |-> FALSE, ancestor |-> NoSimpleSelector, relation |-> "none",
   target |-> NoSimpleSelector]

\* both simple selectors parsed (the ? of lines 311-312 and 324-326)
SelectorOf(ancestor, relation, target) ==
  IF ancestor.some /\ target.some THEN StyleSelector(ancestor, relation, target)
  ELSE NoStyleSelector

TargetOnly(target) ==
  IF target.some THEN StyleSelector(NoSimpleSelector, "none", target) ELSE NoStyleSelector

\* the non-empty trimmed parts
RECURSIVE retain_non_empty(_, _)
retain_non_empty(parts, i) ==
  IF i > Len(parts) THEN <<>>
  ELSE IF trim(parts[i]) = <<>> THEN retain_non_empty(parts, i + 1)
  ELSE <<trim(parts[i])>> \o retain_non_empty(parts, i + 1)

\* lines 306-317
ChildSelector(parts) ==
  IF Len(parts) # 2 THEN NoStyleSelector
  ELSE SelectorOf(parse_simple_selector(parts[1]), "Child", parse_simple_selector(parts[2]))

\* lines 320-339
DescendantSelector(parts) ==
  IF Len(parts) > 2 \/ parts = <<>> THEN NoStyleSelector
  ELSE IF Len(parts) = 2
       THEN SelectorOf(parse_simple_selector(parts[1]), "Descendant",
                       parse_simple_selector(parts[2]))
  ELSE TargetOnly(parse_simple_selector(parts[1]))

SelectorOfTrimmed(sel) ==
  IF sel = <<>> THEN NoStyleSelector
  ELSE IF IndexFrom(sel, {">"}, 1) # 0 THEN ChildSelector(retain_non_empty(split(sel, ">"), 1))
  ELSE DescendantSelector(split_whitespace(sel))

parse_selector(s) == SelectorOfTrimmed(trim(s))

selector_specificity_simple(sel) ==
  (IF sel.id # None THEN 100 ELSE 0) + 10 * Len(sel.classes)
    + (IF sel.element # None THEN 1 ELSE 0)

selector_specificity(sel) ==
  selector_specificity_simple(sel.target)
    + (IF sel.ancestor.some THEN selector_specificity_simple(sel.ancestor) ELSE 0)

(***************************************************************************)
(* Style cascade: rules                                                    *)
(***************************************************************************)
StyleRule(selector, props, specificity, order) ==
  [selector |-> selector, props |-> props, specificity |-> specificity, order |-> order]

RuleOf(selector, props, order) ==
  IF selector.some
  THEN <<StyleRule(selector, props, selector_specificity(selector), order)>>
  ELSE <<>>

\* the for loop of lines 379-389 over sels[k..]
RECURSIVE selector_rules(_, _, _, _)
selector_rules(sels, k, props, order) ==
  IF k > Len(sels) THEN <<>>
  ELSE RuleOf(parse_selector(sels[k]), props, order)
         \o selector_rules(sels, k + 1, props, order)

\* lines 378-390
BlockRules(selector_text, props, order) ==
  IF selector_text # <<>> /\ props # <<>>
  THEN selector_rules(split(selector_text, ","), 1, props, order)
  ELSE <<>>

\* the while loop of parse_css_rules from index i of the cleaned text; order
\* counts the blocks of this text (it stays far below u32::MAX)
RECURSIVE css_rules_from(_, _, _, _)
CssBlock(cleaned, i, open, close, order, rules) ==
  IF close = 0 THEN rules
  ELSE css_rules_from(cleaned, close + 1, order + 1,
         rules \o BlockRules(trim(Slice(cleaned, i, open - 1)),
                             parse_style(trim(Slice(cleaned, open + 1, close - 1))),
                             order))

CssOpen(cleaned, i, open, order, rules) ==
  IF open = 0 THEN rules
  ELSE CssBlock(cleaned, i, open, IndexFrom(cleaned, {"}"}, open + 1), order, rules)

css_rules_from(cleaned, i, order, rules) ==
  CssOpen(cleaned, i, IndexFrom(cleaned, {"{"}, i), order, rules)

parse_css_rules(input) == css_rules_from(strip_css_comments(input), 1, 0, <<>>)

\* the <style> elements of the document, as their texts in document order
RECURSIVE collect_style_rules_from(_, _)
collect_style_rules_from(styles, i) ==
  IF i > Len(styles) THEN <<>>
  ELSE IF trim(styles[i]) = <<>> THEN collect_style_rules_from(styles, i + 1)
  ELSE parse_css_rules(styles[i]) \o collect_style_rules_from(styles, i + 1)

collect_style_rules(styles) == collect_style_rules_from(styles, 1)

(***************************************************************************)
(* Style cascade: matching and merging                                     *)
(***************************************************************************)
\* an element: its tag, its id and class attributes ("" when absent), and
\* its element ancestors, the parent first
Node(tag, id, class, ancestors) ==
  [tag |-> tag, id |-> id, class |-> class, ancestors |-> ancestors]

node_class_list(node) == split_whitespace(node.class)
node_id(node) == node.id
node_tag(node) == node.tag

matches_simple_selector(sel, node) ==
  /\ sel.element # None => sel.element = node_tag(node)
  /\ sel.id # None => sel.id = node_id(node)
  /\ \A k \in 1..Len(sel.classes) :
       \E c \in 1..Len(node_class_list(node)) : node_class_list(node)[c] = sel.classes[k]

matches_selector_any_ancestor(sel, node) ==
  /\ matches_simple_selector(sel.target, node)
  /\ sel.ancestor.some =>
       \E a \in 1..Len(node.ancestors) :
         matches_simple_selector(sel.ancestor, node.ancestors[a])

matches_selector(sel, node) ==
  /\ matches_simple_selector(sel.target, node)
  /\ sel.ancestor.some =>
       IF sel.relation = "Child"
       THEN node.ancestors # <<>> /\ matches_simple_selector(sel.ancestor, node.ancestors[1])
       ELSE \E a \in 1..Len(node.ancestors) :
              matches_simple_selector(sel.ancestor, node.ancestors[a])

\* position of key k in base (0: absent)
RECURSIVE position(_, _, _)
position(base, k, i) ==
  IF i > Len(base) THEN 0
  ELSE IF base[i][1] = k THEN i
  ELSE position(base, k, i + 1)

MergeOne(base, pair, pos) ==
  IF pos # 0 THEN [base EXCEPT ![pos] = pair] ELSE Append(base, pair)

RECURSIVE merge_style_props(_, _, _)
merge_style_props(base, other, i) ==
  IF i > Len(other) THEN base
  ELSE merge_style_props(MergeOne(base, other[i], position(base, other[i][1], 1)),
                         other, i + 1)

\* the key of sort_by_key: (specificity, order), compared lexicographically
KeyLessEq(a, b) ==
  a.specificity < b.specificity \/ (a.specificity = b.specificity /\ a.order <= b.order)

\* stable sort: rule r goes behind every rule whose key is not greater
RECURSIVE InsertByKey(_, _, _)
InsertByKey(sorted, r, i) ==
  IF i > Len(sorted) THEN Append(sorted, r)
  ELSE IF KeyLessEq(sorted[i], r) THEN InsertByKey(sorted, r, i + 1)
  ELSE SubSeq(sorted, 1, i - 1) \o <<r>> \o SubSeq(sorted, i, Len(sorted))

RECURSIVE sort_by_key(_, _, _)
sort_by_key(matched, i, sorted) ==
  IF i > Len(matched) THEN sorted
  ELSE sort_by_key(matched, i + 1, InsertByKey(sorted, matched[i], 1))

\* lines 502-505
RECURSIVE merge_rules(_, _, _)
merge_rules(matched, i, props) ==
  IF i > Len(matched) THEN props
  ELSE merge_rules(matched, i + 1, merge_style_props(props, matched[i].props, 1))

\* lines 495-500
RECURSIVE matching_rules(_, _, _)
matching_rules(rules, node, i) ==
  IF i > Len(rules) THEN <<>>
  ELSE IF matches_selector(rules[i].selector, node)
       THEN <<rules[i]>> \o matching_rules(rules, node, i + 1)
       ELSE matching_rules(rules, node, i + 1)

collect_matching_style_props(rules, node) ==
  merge_rules(sort_by_key(matching_rules(rules, node, 1), 1, <<>>), 1, <<>>)

(***************************************************************************)
(* Bounds and inputs                                                       *)
(***************************************************************************)
MaxPathLen   == 3   \* longest path text drawn character by character
MaxArcNums   == 10  \* most numbers after the first command of an arc text
MaxTailNums  == 3   \* most numbers after the second command of an arc text
MaxPrecision == 4   \* largest precision handed to the formatter
MaxFracDigits == 3  \* most fractional digits of a formatted value

Two     == Fin(FALSE, 2, 0)
Three   == Fin(FALSE, 3, 0)
Half    == Fin(FALSE, 5, -1)
Quarter == Fin(FALSE, 25, -2)

DefaultPrecision == 4

Texts(alphabet, maxLen) == UNION {[1..n -> alphabet] : n \in 0..maxLen}

\* path text drawn character by character
PathAlphabet == {"M", "X", "1", "5", ".", "-", "e", " ", ","}

\* the k-th number of an arc text: " 1" and "-.5" in turn
ArcNum(k) == IF k % 2 = 1 THEN <<" ", "1">> ELSE <<"-", ".", "5">>

RunOfNums(n, shift) == Concat([k \in 1..n |-> ArcNum(k + shift)])

\* [command] numbers [command] numbers
ArcTexts ==
  {c1 \o RunOfNums(n1, sh) \o c2 \o RunOfNums(n2, sh) :
     c1 \in {<<>>, <<"A">>, <<"a">>, <<"L">>}, n1 \in 0..MaxArcNums,
     c2 \in {<<>>, <<"A">>, <<"M">>}, n2 \in 0..MaxTailNums, sh \in 0..1}

\* the inputs of the tests of path.rs, and the special float texts
ArcFlagsText == <<"M","1","0"," ","1","0"," ","A"," ","5"," ","5"," ","0"," ","0"," ","1"," ","2","0"," ","2","0">>
ArcFlagsOut  == <<"M","2","0"," ","2","0"," ","A"," ","1","0"," ","1","0"," ","0"," ","0"," ","1"," ","4","0"," ","4","0">>
TightText == <<"M","1","0","-","2","0","L",".","5","-",".","2","5">>
MixedText == <<"M","0"," ","0"," ","A","1",".","5","e","1"," ","2",".","5"," ","0"," ","1"," ","0"," ","1","0"," ","-","2","0">>
SciText   == <<"M","-","0",".","5","e","-","2"," ","1","E","2"," ","L","+",".","2","5"," ","-","3",".","5","e","1">>

\* numbers packed without a separator: 1.5 then .5, and 10 then -20
PackedPoints == <<"M","1",".","5",".","5">>
PackedSigns  == <<"M","1","0","-","2","0">>

\* a negative scale, which mirrors the path
MinusOne == Fin(TRUE, 1, 0)

PathCall(d, ctx) == [fn |-> "scale_path", d |-> d, ctx |-> ctx]

PathCalls ==
  {PathCall(d, ctx) :
     d \in Texts(PathAlphabet, MaxPathLen),
     ctx \in {ScaleCtx(Two, DefaultPrecision, FALSE), ScaleCtx(Half, 0, FALSE)}}
  \cup
  {PathCall(d, ctx) :
     d \in ArcTexts,
     ctx \in {ScaleCtx(Two, DefaultPrecision, FALSE), ScaleCtx(Half, 1, FALSE)}}
  \cup
  {PathCall(ArcFlagsText, ScaleCtx(Two, DefaultPrecision, FALSE)),
   PathCall(TightText, ScaleCtx(Two, DefaultPrecision, FALSE)),
   PathCall(PackedPoints, ScaleCtx(Two, DefaultPrecision, FALSE)),
   PathCall(PackedSigns, ScaleCtx(MinusOne, DefaultPrecision, FALSE)),
   PathCall(TightText, ScaleCtx(MinusOne, DefaultPrecision, FALSE)),
   PathCall(MixedText, ScaleCtx(Three, DefaultPrecision, FALSE)),
   PathCall(SciText, ScaleCtx(Two, 6, FALSE)),
   PathCall(<<"M","1","0","e">>, ScaleCtx(Two, DefaultPrecision, FALSE)),
   PathCall(<<"X","1","0"," ","2","0">>, ScaleCtx(Two, DefaultPrecision, FALSE)),
   PathCall(<<"M"," ","n","a","n">>, ScaleCtx(Two, DefaultPrecision, FALSE)),
   PathCall(<<"M","i","n","f","-","i","n","f">>, ScaleCtx(Two, DefaultPrecision, FALSE)),
   PathCall(<<"M","1"," ","I","n","f","i","n","i","t","y">>, ScaleCtx(Two, DefaultPrecision, FALSE))}

\* values handed to the formatter: m * 10^x, both signs
FmtValues ==
  {Fin(neg, m, IF m = 0 THEN 0 ELSE x) :
     neg \in BOOLEAN, m \in {0, 1, 5, 10, 12, 25, 100, 105, 1234},
     x \in (-MaxFracDigits)..1}

FmtCalls ==
  {[fn |-> f, v |-> v, precision |-> p] :
     f \in {"fmt", "fmt_num"},
     v \in {w \in FmtValues : \A q \in 0..MaxPrecision : Representable(w, q)},
     p \in 0..MaxPrecision}

Pending == [st |-> "pending"]

(***************************************************************************)
(* The state machine                                                       *)
(***************************************************************************)
\* path.rs scale_path
ScalePath ==
  /\ call.fn = "scale_path"
  /\ ret = Pending
  /\ ret' = scale_path(call.d, call.ctx)
  /\ UNCHANGED call

\* scale.rs ScaleCtx::fmt
Fmt ==
  /\ call.fn = "fmt"
  /\ ret = Pending
  /\ ret' = [st |-> "ok", out |-> fmt(ScaleCtx(Two, call.precision, FALSE), call.v)]
  /\ UNCHANGED call

\* transform.rs fmt_num
FmtNum ==
  /\ call.fn = "fmt_num"
  /\ ret = Pending
  /\ ret' = [st |-> "ok", out |-> fmt_num(call.v, call.precision)]
  /\ UNCHANGED call

InitPath == call \in PathCalls /\ ret = Pending
SpecPath == InitPath /\ [][ScalePath]_vars

MaxPad == 11  \* most ASCII characters between a wide character and the offending token

\* k characters of numbers and separators: "1 1 1 .."
Pad(k) == [j \in 1..k |-> IF j % 2 = 1 THEN "1" ELSE " "]

\* nothing, or one character of two or of three bytes
WideChars == {<<>>, <<"U+00E9">>, <<"U+20AC">>}

\* [wide] pad [X] pad [wide]: X is no command letter, so the text with it is
\* rejected at X, with a wide character up to maxPad characters away on
\* either side
SnippetTexts(maxPad) ==
  {head \o Pad(k) \o bad \o Pad(j) \o tail :
     head \in WideChars, k \in 0..maxPad, bad \in {<<>>, <<"X">>},
     j \in 0..maxPad, tail \in WideChars}

SnippetCalls(maxPad) ==
  {PathCall(d, ScaleCtx(Two, DefaultPrecision, FALSE)) : d \in SnippetTexts(maxPad)}

InitSnippet == call \in SnippetCalls(MaxPad) /\ ret = Pending
SpecSnippet == InitSnippet /\ [][ScalePath]_vars

InitFmt == call \in FmtCalls /\ ret = Pending
NextFmt == Fmt \/ FmtNum
SpecFmt == InitFmt /\ [][NextFmt]_vars

(***************************************************************************)
(* Transform inputs                                                        *)
(***************************************************************************)
MaxOps == 2   \* most functions in a rendered transform list

\* number texts
N0 == <<"0">>
N1 == <<"1">>
N2 == <<"2">>
N3 == <<"3">>
N10 == <<"1","0">>
N20 == <<"2","0">>
N216 == <<"2","1","6">>
NMinus1 == <<"-","1">>
NHalf == <<".","5">>
NMinusTiny == <<"-","1","e","-","1","3">>

OpText(name, args) == [name |-> name, args |-> args]

\* the functions a rendered list is made of: every supported name, the
\* arities the code tells apart, an unsupported name
OpPool ==
  {OpText(name_translate, a) : a \in {<<>>, <<N10>>, <<N10, N20>>, <<N1, N2, N3>>, <<NMinus1, NHalf>>}}
  \cup {OpText(name_scale, a) : a \in {<<>>, <<N2>>, <<N2, N3>>, <<N2, N3, N1>>}}
  \cup {OpText(name_matrix, a) :
          a \in {<<N2, N0, N0, N2, N10, N20>>,
                 <<N1, N0, N0, NMinus1, N0, N216>>,
                 <<N1, N0, N0, N1, N0>>,
                 <<N1, N0, N0, N1, N0, N0, N3>>}}
  \cup {OpText(name_rotate, a) : a \in {<<N0>>, <<N0, N10, N20>>}}
  \cup {OpText(name_skewX, <<N0>>), OpText(name_skewY, <<N0>>),
        OpText(<<"f","o","o">>, <<N1>>)}

\* how a list is written: packed, or with every optional space
FnText(op, loose) ==
  IF loose
  THEN op.name \o <<" ", "(", " ">> \o join(op.args, <<" ", ",", " ">>) \o <<" ", ")">>
  ELSE op.name \o <<"(">> \o join(op.args, <<",">>) \o <<")">>

ListText(ops, loose) ==
  IF loose
  THEN <<" ">> \o join([i \in 1..Len(ops) |-> FnText(ops[i], TRUE)], <<" ", " ">>) \o <<" ">>
  ELSE join([i \in 1..Len(ops) |-> FnText(ops[i], FALSE)], <<>>)

TransformCall(input, scale, precision) ==
  [fn |-> "scale_transform_value", input |-> input, scale |-> scale,
   precision |-> precision]

Translate1020 == <<"t","r","a","n","s","l","a","t","e","(","1","0",",","2","0",")">>
Translate510  == <<"t","r","a","n","s","l","a","t","e","(","5",",","1","0",")">>
Scale2        == <<"s","c","a","l","e","(","2",")">>
Scale1        == <<"s","c","a","l","e","(","1",")">>
MatrixUniform    == <<"m","a","t","r","i","x","(","2",",","0",",","0",",","2",",","1","0",",","2","0",")">>
MatrixUniformOut == <<"m","a","t","r","i","x","(","1",",","0",",","0",",","1",",","5",",","1","0",")">>
MatrixMirror     == <<"m","a","t","r","i","x","(","1",",","0",",","0",",","-","1",",","0",",","2","1","6",")">>
MatrixMirrorOut  == <<"m","a","t","r","i","x","(","0",".","2","5",",","0",",","0",",","-","0",".","2","5",",","0",",","5","4",")">>
\* a coefficient of float-noise size: -1e-13
MatrixNoise    == <<"m","a","t","r","i","x","(","1",",","0",",","0",",","1",",","-","1","e","-","1","3",",","0",")">>
MatrixNoiseOut == <<"m","a","t","r","i","x","(","0",".","5",",","0",",","0",",","0",".","5",",","0",",","0",")">>

\* texts that are no transform list
BrokenTransforms ==
  {<<"t","(","1">>, <<"t"," ","1">>, <<"t","(","1",",",")">>, <<"t","(","1","e",")">>,
   <<"(","1",")">>, <<"t","(","1",")",",","t","(","1",")">>, <<"1">>}

TransformCalls ==
  {TransformCall(ListText(ops, FALSE), Half, DefaultPrecision) :
     ops \in UNION {[1..n -> OpPool] : n \in 0..MaxOps}}
  \cup
  {TransformCall(ListText(ops, TRUE), Two, DefaultPrecision) :
     ops \in UNION {[1..n -> OpPool] : n \in 0..MaxOps}}
  \cup
  {TransformCall(MatrixMirror, Quarter, DefaultPrecision),
   TransformCall(MatrixNoise, Half, DefaultPrecision),
   TransformCall(FnText(OpText(name_matrix, <<NMinusTiny, N0, N0, N1, N0, N0>>), TRUE),
                 Two, DefaultPrecision)}
  \cup
  {TransformCall(t, Half, DefaultPrecision) : t \in BrokenTransforms}

(***************************************************************************)
(* Cascade inputs                                                          *)
(***************************************************************************)
MaxRules      == 3  \* most rule blocks of a document made of the plain kinds
MaxMixedRules == 2  \* most rule blocks of a document made of all kinds

KeyWidth  == <<"w","i","d","t","h">>
KeyHeight == <<"h","e","i","g","h","t">>
TagRect   == <<"r","e","c","t">>

\* the value block number k sets: 10, 20, 30, ...
BlockValue(k) == NatToDigits(10 * k)

\* the rule blocks a stylesheet is made of; block k of the document sets
\* BlockValue(k)
BlockKinds ==
  {"tag", "class", "id", "classes", "descendant", "other", "empty", "list"}

\* the kinds with one plain selector and one declaration
PlainKinds == {"tag", "class", "id", "descendant", "other"}

BlockText(kind, k) ==
  CASE kind = "tag" ->
         <<"r","e","c","t","{","w","i","d","t","h",":">> \o BlockValue(k) \o <<"}">>
    [] kind = "class" ->
         <<".","b","i","g","{","w","i","d","t","h",":">> \o BlockValue(k) \o <<"}">>
    [] kind = "id" ->
         <<"#","s","o","l","o","{","w","i","d","t","h",":">> \o BlockValue(k) \o <<"}">>
    [] kind = "classes" ->
         Concat([i \in 1..11 |-> <<".","b","i","g">>]) \o <<"{","w","i","d","t","h",":">> \o BlockValue(k) \o <<"}">>
    [] kind = "descendant" ->
         <<"g"," ","r","e","c","t"," ","{"," ","w","i","d","t","h",":"," ">> \o BlockValue(k)
           \o <<";"," ","h","e","i","g","h","t",":"," ">> \o BlockValue(k) \o <<" ","}">>
    [] kind = "other" ->
         <<"c","i","r","c","l","e","{","w","i","d","t","h",":">> \o BlockValue(k) \o <<"}">>
    [] kind = "empty" ->
         <<".","b","i","g","{"," ","}">>
    [] kind = "list" ->
         <<"/","*"," ","h"," ","*","/"," ","r","e","c","t",","," ",".","b","i","g"," ","{","h","e","i","g","h","t",":">> \o BlockValue(k) \o <<";","}">>

\* the text of blocks from..to of the document
StyleText(kinds, from, to) ==
  Concat([i \in 1..(IF to < from THEN 0 ELSE to - from + 1) |->
            BlockText(kinds[from + i - 1], from + i - 1)])

\* <g><rect id="solo" class="big"/></g> and <rect class="wide big"/> in <svg>
NodeSolo ==
  Node(TagRect, <<"s","o","l","o">>, <<"b","i","g">>,
       <<Node(<<"g">>, <<>>, <<>>, <<>>), Node(<<"s","v","g">>, <<>>, <<>>, <<>>)>>)

NodePlain ==
  Node(TagRect, <<>>, <<"w","i","d","e"," ","b","i","g">>, <<Node(<<"s","v","g">>, <<>>, <<>>, <<>>)>>)

CascadeCall(styles, node) ==
  [fn |-> "collect_matching_style_props", styles |-> styles, node |-> node]

\* rect{width:20} .big{width:30} #solo{width:40}, in the order of the test
\* and reversed
SpecificityExample ==
  <<"r","e","c","t","{","w","i","d","t","h",":","2","0","}",".","b","i","g","{","w","i","d","t","h",":","3","0","}","#","s","o","l","o","{","w","i","d","t","h",":","4","0","}">>
SpecificityReversed ==
  <<"#","s","o","l","o","{","w","i","d","t","h",":","4","0","}",".","b","i","g","{","w","i","d","t","h",":","3","0","}","r","e","c","t","{","w","i","d","t","h",":","2","0","}">>

\* the sequences of at most n kinds
Documents(kinds, n) == UNION {[1..k -> kinds] : k \in 0..n}

\* the document's blocks, cut into a first and a second <style> element
CascadeCalls(maxRules, maxMixed) ==
  UNION {{CascadeCall(<<StyleText(kinds, 1, cut), StyleText(kinds, cut + 1, Len(kinds))>>,
                      node) :
            cut \in 0..Len(kinds), node \in {NodeSolo, NodePlain}} :
         kinds \in Documents(PlainKinds, maxRules) \cup Documents(BlockKinds, maxMixed)}
  \cup
  {CascadeCall(<<t>>, NodeSolo) : t \in {SpecificityExample, SpecificityReversed}}

\* transform.rs scale_transform_value
ScaleTransformValue ==
  /\ call.fn = "scale_transform_value"
  /\ ret = Pending
  /\ ret' = scale_transform_value(call.input, call.scale, call.precision)
  /\ UNCHANGED call

InitTransform == call \in TransformCalls /\ ret = Pending
SpecTransform == InitTransform /\ [][ScaleTransformValue]_vars

(***************************************************************************)
(* Matrix inputs                                                           *)
(***************************************************************************)
\* the integer n as f64
Whole(n) == Fin(n < 0, IF n < 0 THEN -n ELSE n, 0)

IntParams(ns) == [k \in 1..Len(ns) |-> Whole(ns[k])]

\* ops with integer parameters: translations, scales and matrices with and
\* without their optional parameters, a rotation by 0, a short matrix and an
\* unsupported name
IntegerOps ==
  {Transform(name_translate, IntParams(a)) : a \in {<<>>, <<10>>, <<10, 20>>, <<-1, 3>>}}
  \cup {Transform(name_scale, IntParams(a)) : a \in {<<>>, <<2>>, <<2, 3>>, <<-1>>}}
  \cup {Transform(name_matrix, IntParams(a)) :
          a \in {<<2, 0, 0, 2, 10, 20>>, <<1, 2, 3, 4, 5, 6>>, <<0, 1, -1, 0, 0, 0>>,
                 <<1, 0, 0, 1, 0>>}}
  \cup {Transform(name_rotate, IntParams(<<0>>)), Transform(<<"f","o","o">>, IntParams(<<1>>))}

MatrixCalls(maxOps) ==
  {[fn |-> "transform_to_matrix", list |-> list] :
     list \in UNION {[1..n -> IntegerOps] : n \in 0..maxOps}}

\* transform.rs transform_to_matrix
TransformToMatrix ==
  /\ call.fn = "transform_to_matrix"
  /\ ret = Pending
  /\ ret' = transform_to_matrix(call.list)
  /\ UNCHANGED call

InitMatrix == call \in MatrixCalls(MaxOps) /\ ret = Pending
SpecMatrix == InitMatrix /\ [][TransformToMatrix]_vars

\* svg.rs collect_style_rules and collect_matching_style_props, as walk_impl
\* calls them for one element
CollectMatchingStyleProps ==
  /\ call.fn = "collect_matching_style_props"
  /\ ret = Pending
  /\ ret' = [st |-> "ok",
             props |-> collect_matching_style_props(collect_style_rules(call.styles),
                                                    call.node)]
  /\ UNCHANGED call

InitCascade == call \in CascadeCalls(MaxRules, MaxMixedRules) /\ ret = Pending
SpecCascade == InitCascade /\ [][CollectMatchingStyleProps]_vars


(***************************************************************************)
(* Document scaler: values                                                 *)
(***************************************************************************)
\* Result<String>: the text, or the chain of error messages, outermost first
Ok(text)   == [st |-> "ok", text |-> text, chain |-> <<>>]
Err(chain) == [st |-> "err", text |-> <<>>, chain |-> chain]

\* Result::with_context: one more message in front of the chain
with_context(r, message) == IF r.st = "ok" THEN r ELSE Err(<<message>> \o r.chain)

\* Result<f64, ParseFloatError>
ParseOk(val) == [ok |-> TRUE, val |-> val]
ParseErr     == [ok |-> FALSE, val |-> NaN]

\* one message of an error chain: the format string and what it interpolates
\* (the empty text for what the format has no place for)
Msg(format, key, tag, id, value) ==
  [format |-> format, key |-> key, tag |-> tag, id |-> id, value |-> value]

\* the message of ParseFloatError
InvalidFloat == Msg("invalid float literal", <<>>, <<>>, <<>>, <<>>)

\* a signed "inf", "infinity" or "nan" of any case
FromStrWord(t, i) ==
  IF LowerText(Slice(t, i, Len(t))) = <<"n","a","n">> THEN ParseOk(NaN)
  ELSE IF LowerText(Slice(t, i, Len(t)))
            \in {<<"i","n","f">>, <<"i","n","f","i","n","i","t","y">>}
       THEN ParseOk(Inf(i = 2 /\ t[1] = "-"))
  ELSE ParseErr

\* str::parse::<f64>: the whole text is one decimal number
from_str(t) ==
  IF recognize_float(t, 1) = POk(Len(t) + 1) THEN ParseOk(parse_f64(t))
  ELSE FromStrWord(t, SkipSign(t, 1))

is_num_char(c) == is_ascii_digit(c) \/ c \in {"-", "+", ".", "e", "E"}

is_supported_unit_px_only(unit) == unit \in {<<>>, <<"p","x">>}

is_supported_unit(unit) ==
  unit \in {<<>>, <<"p","x">>, <<"p","t">>, <<"p","c">>, <<"m","m">>, <<"c","m">>, <<"i","n">>}

\* length of the longest prefix of number characters
NumLen(token) ==
  FirstOf({p \in 1..(Len(token) + 1) : p = Len(token) + 1 \/ ~is_num_char(token[p])}) - 1

split_num_and_unit(token) ==
  <<SubSeq(token, 1, NumLen(token)), SubSeq(token, NumLen(token) + 1, Len(token))>>

\* Option<String>
Some(text) == [some |-> TRUE, text |-> text]
NoText     == [some |-> FALSE, text |-> <<>>]

ScaledToken(num, unit, ctx) ==
  IF num.ok THEN Some(fmt(ctx, FMul(num.val, ctx.scale)) \o unit) ELSE NoText

TokenOfParts(num_part, unit, ctx) ==
  IF num_part = <<>> \/ unit = <<"%">> \/ ~is_supported_unit(unit) THEN NoText
  ELSE ScaledToken(from_str(num_part), unit, ctx)

TokenOfSplit(nu, ctx) == TokenOfParts(nu[1], trim(nu[2]), ctx)

TokenOfTrimmed(t, ctx) ==
  IF t = <<>> THEN NoText ELSE TokenOfSplit(split_num_and_unit(t), ctx)

scale_number_token(token, ctx) == TokenOfTrimmed(trim(token), ctx)

\* flush_buf: the text pushed for the token in buf
FlushText(buf, scaled) == IF scaled.some THEN scaled.text ELSE buf

flush_buf(buf, ctx) ==
  IF buf = <<>> THEN <<>> ELSE FlushText(buf, scale_number_token(buf, ctx))

\* first index >= i that ends a token (a character that is neither a number
\* character nor a letter), or the end
TokenEnd(value, i) ==
  FirstOf({p \in i..(Len(value) + 1) :
             p = Len(value) + 1
               \/ ~(is_num_char(value[p]) \/ is_ascii_alphabetic(value[p]))})

\* the for loop of scale_number_list from index i
RECURSIVE number_list_from(_, _, _)
NumberListAt(value, i, j, ctx) ==
  flush_buf(SubSeq(value, i, j - 1), ctx)
    \o (IF j > Len(value) THEN <<>>
        ELSE <<value[j]>> \o number_list_from(value, j + 1, ctx))

number_list_from(value, i, ctx) ==
  IF i > Len(value) THEN <<>> ELSE NumberListAt(value, i, TokenEnd(value, i), ctx)

scale_number_list(value, ctx) == number_list_from(value, 1, ctx)

Four == Fin(FALSE, 4, 0)

\* 1.0 / scale, for the scales of the inputs
recip(scale) ==
  CASE SameNumber(scale, One) -> One
    [] SameNumber(scale, Two) -> Half
    [] SameNumber(scale, Half) -> Two
    [] SameNumber(scale, Four) -> Quarter
    [] SameNumber(scale, Quarter) -> Four

scale_number_list_inverse_direct(value, ctx) ==
  IF IsZero(ctx.scale) THEN value ELSE number_list_from(value, 1, ctx)

\* lines 139-169: the list scaled by inv = 1.0 / scale
scale_number_list_inverse(value, ctx) ==
  IF IsZero(ctx.scale) THEN value
  ELSE number_list_from(value, 1, ScaleCtx(recip(ctx.scale), ctx.precision, ctx.fix_stroke))

InvalidLength(val) == Msg("invalid length: {}", <<>>, <<>>, <<>>, val)

LengthOfNum_squared(val, num, unit, ctx) ==
  IF num.ok THEN Ok(fmt(ctx, FMul(num.val, num.val)) \o unit)
  ELSE Err(<<InvalidLength(val), InvalidFloat>>)

\* lines 187-194: the number parsed, scaled and formatted, the unit behind it
LengthOfNum(val, num, unit, ctx) ==
  IF num.ok THEN Ok(fmt(ctx, FMul(num.val, ctx.scale)) \o unit)
  ELSE Err(<<InvalidLength(val), InvalidFloat>>)

LengthOfParts(val, num_part, unit, ctx) ==
  IF num_part = <<>> \/ unit = <<"%">> \/ ~is_supported_unit(unit) THEN Ok(val)
  ELSE LengthOfNum(val, from_str(num_part), unit, ctx)

LengthOfSplit(val, nu, ctx) == LengthOfParts(val, nu[1], trim(nu[2]), ctx)

LengthOfTrimmed(val, t, ctx) ==
  IF t = <<>> THEN Ok(val) ELSE LengthOfSplit(val, split_num_and_unit(t), ctx)

scale_length_value(val, ctx) == LengthOfTrimmed(val, trim(val), ctx)

(***************************************************************************)
(* Document scaler: style properties                                       *)
(***************************************************************************)
KeyStrokeWidth   == <<"s","t","r","o","k","e","-","w","i","d","t","h">>
KeyVectorEffect  == <<"v","e","c","t","o","r","-","e","f","f","e","c","t">>
KeyDasharray     == <<"s","t","r","o","k","e","-","d","a","s","h","a","r","r","a","y">>
KeyBaseFrequency == <<"b","a","s","e","F","r","e","q","u","e","n","c","y">>
KeyTransform     == <<"t","r","a","n","s","f","o","r","m">>
KeyStyle         == <<"s","t","y","l","e">>
KeyViewBox       == <<"v","i","e","w","B","o","x">>
KeyD             == <<"d">>
NonScalingStroke == <<"n","o","n","-","s","c","a","l","i","n","g","-","s","t","r","o","k","e">>
ObjectBoundingBox == <<"o","b","j","e","c","t","B","o","u","n","d","i","n","g","B","o","x">>

\* the keys scale_style_value scales as lengths
style_length_keys ==
  {<<"s","t","r","o","k","e","-","w","i","d","t","h">>, <<"w","i","d","t","h">>, <<"h","e","i","g","h","t">>, <<"x">>, <<"y">>, <<"z">>, <<"c","x">>, <<"c","y">>, <<"r">>, <<"r","x">>, <<"r","y">>,
   <<"x","1">>, <<"y","1">>, <<"x","2">>, <<"y","2">>, <<"f","o","n","t","-","s","i","z","e">>, <<"l","e","t","t","e","r","-","s","p","a","c","i","n","g">>, <<"s","t","r","o","k","e","-","d","a","s","h","o","f","f","s","e","t">>,
   <<"d","x">>, <<"d","y">>, <<"m","a","r","k","e","r","W","i","d","t","h">>, <<"m","a","r","k","e","r","H","e","i","g","h","t">>, <<"r","e","f","X">>, <<"r","e","f","Y">>, <<"s","u","r","f","a","c","e","S","c","a","l","e">>,
   <<"p","o","i","n","t","s","A","t","X">>, <<"p","o","i","n","t","s","A","t","Y">>, <<"p","o","i","n","t","s","A","t","Z">>}

\* the attributes walk_impl scales as lengths
length_attributes == style_length_keys \cup {<<"f","x">>, <<"f","y">>}

style_number_lists == {<<"s","t","d","D","e","v","i","a","t","i","o","n">>, <<"r","a","d","i","u","s">>, <<"k","e","r","n","e","l","U","n","i","t","L","e","n","g","t","h">>}

number_list_attributes ==
  {<<"s","t","r","o","k","e","-","d","a","s","h","a","r","r","a","y">>, <<"s","t","d","D","e","v","i","a","t","i","o","n">>, <<"r","a","d","i","u","s">>, <<"s","c","a","l","e">>, <<"k","e","r","n","e","l","U","n","i","t","L","e","n","g","t","h">>}

\* val.trim().eq_ignore_ascii_case("none")
IsNone(val) == LowerText(trim(val)) = <<"n","o","n","e">>

\* the Result of path.rs scale_path, with the message of format_path_error:
\* its snippet is the ten bytes on each side of the position (the attribute
\* texts of the documents drawn here are ASCII, where the slice cannot panic)
PathResult(d, r) ==
  IF r.st = "ok" THEN Ok(r.out)
  ELSE Err(<<Msg("invalid path data at char {} (byte {}) near '{}': {}", <<>>, <<>>, <<>>,
                 r.snippet)>>)

\* anyhow!("invalid transform: {}", input)
InvalidTransform(input) == Msg("invalid transform: {}", <<>>, <<>>, <<>>, input)

\* the Result of transform.rs scale_transform_value
TransformResult(input, r) ==
  IF r.st = "ok" THEN Ok(r.out)
  ELSE IF r.reason = "parse transform"
       THEN Err(<<Msg("parse transform", <<>>, <<>>, <<>>, <<>>), InvalidTransform(input)>>)
  ELSE Err(<<Msg(r.reason, <<>>, <<>>, <<>>, <<>>)>>)

scale_transform_all(v, scale, precision) ==
  TransformResult(v, scale_transform_value(v, scale, precision))

scale_style_value(key, val, ctx, skip_scale, has_non_scaling_stroke) ==
  CASE key = KeyTransform ->
         with_context(scale_transform_all(val, ctx.scale, ctx.precision),
                      Msg("transform scale failed in style: {}", <<>>, <<>>, <<>>, val))
    [] key \in style_length_keys ->
         IF skip_scale \/ (key = KeyStrokeWidth /\ has_non_scaling_stroke /\ ~ctx.fix_stroke)
         THEN Ok(val)
         ELSE with_context(scale_length_value(val, ctx),
                           Msg("invalid {} in style: {}", key, <<>>, <<>>, val))
    [] key = KeyDasharray ->
         IF skip_scale \/ IsNone(val) THEN Ok(val) ELSE Ok(scale_number_list(val, ctx))
    [] key \in style_number_lists ->
         IF skip_scale THEN Ok(val) ELSE Ok(scale_number_list(val, ctx))
    [] key = KeyBaseFrequency ->
         IF skip_scale THEN Ok(val) ELSE Ok(scale_number_list_inverse(val, ctx))
    [] OTHER -> Ok(val)

\* "k:v" joined by "; "
RECURSIVE serialize_from(_, _)
serialize_from(props, i) ==
  IF i > Len(props) THEN <<>>
  ELSE (IF i > 1 THEN <<";"," ">> ELSE <<>>) \o props[i][1] \o <<":">> \o props[i][2]
         \o serialize_from(props, i + 1)

serialize_style(props) == serialize_from(props, 1)

(***************************************************************************)
(* Document scaler: elements                                               *)
(***************************************************************************)
\* an element of the document: tag, attributes in document order, the text
\* it holds, and the index of its parent in the document's pre-order list
\* of elements (0: the root)
Element(tag, attrs, text, parent) ==
  [tag |-> tag, attrs |-> attrs, text |-> text, parent |-> parent]

\* node.attribute(name)
has_attribute(e, name) == position(e.attrs, name, 1) # 0
attribute_or(e, name, default) ==
  IF position(e.attrs, name, 1) = 0 THEN default
  ELSE e.attrs[position(e.attrs, name, 1)][2]

\* the element ancestors from element p up, the nearest first
RECURSIVE ancestors_from(_, _)
ancestors_from(elems, p) ==
  IF p = 0 THEN <<>>
  ELSE <<Node(elems[p].tag, attribute_or(elems[p], <<"i","d">>, <<>>),
              attribute_or(elems[p], <<"c","l","a","s","s">>, <<>>), <<>>)>>
         \o ancestors_from(elems, elems[p].parent)

\* element i as the selectors see it
NodeOf(elems, i) ==
  Node(elems[i].tag, attribute_or(elems[i], <<"i","d">>, <<>>),
       attribute_or(elems[i], <<"c","l","a","s","s">>, <<>>), ancestors_from(elems, elems[i].parent))

\* the text of every <style> element, in document order
RECURSIVE style_texts(_, _)
style_texts(elems, i) ==
  IF i > Len(elems) THEN <<>>
  ELSE (IF elems[i].tag = KeyStyle THEN <<elems[i].text>> ELSE <<>>)
         \o style_texts(elems, i + 1)

\* lines 572-586
units_attr_name(tag) ==
  CASE tag = <<"c","l","i","p","P","a","t","h">> -> <<"c","l","i","p","P","a","t","h","U","n","i","t","s">>
    [] tag = <<"m","a","s","k">> -> <<"m","a","s","k","U","n","i","t","s">>
    [] tag \in {<<"l","i","n","e","a","r","G","r","a","d","i","e","n","t">>, <<"r","a","d","i","a","l","G","r","a","d","i","e","n","t">>} -> <<"g","r","a","d","i","e","n","t","U","n","i","t","s">>
    [] tag = <<"p","a","t","t","e","r","n">> -> <<"p","a","t","t","e","r","n","U","n","i","t","s">>
    [] tag = <<"f","i","l","t","e","r">> -> <<"f","i","l","t","e","r","U","n","i","t","s">>
    [] tag = <<"m","a","r","k","e","r">> -> <<"m","a","r","k","e","r","U","n","i","t","s">>
    [] OTHER -> <<>>

skip_scale_due_to_units_explicit_only(e) ==
  \/ attribute_or(e, units_attr_name(e.tag), <<>>) = ObjectBoundingBox
  \/ /\ e.tag = <<"m","a","r","k","e","r">>
     /\ attribute_or(e, <<"m","a","r","k","e","r","U","n","i","t","s">>, <<>>) = <<"s","t","r","o","k","e","W","i","d","t","h">>

\* lines 587-589
skip_scale_due_to_units(e) ==
  \/ attribute_or(e, units_attr_name(e.tag), <<>>) = ObjectBoundingBox
  \/ /\ e.tag = <<"m","a","r","k","e","r">>
     /\ \/ attribute_or(e, <<"m","a","r","k","e","r","U","n","i","t","s">>, <<>>) = <<"s","t","r","o","k","e","W","i","d","t","h">>
        \/ ~has_attribute(e, <<"m","a","r","k","e","r","U","n","i","t","s">>)

skip_children_due_to_content_units_pattern_only(e) ==
  /\ e.tag = <<"p","a","t","t","e","r","n">>
  /\ attribute_or(e, <<"p","a","t","t","e","r","n","C","o","n","t","e","n","t","U","n","i","t","s">>, <<>>) = ObjectBoundingBox

\* lines 590-598
skip_children_due_to_content_units(e) ==
  CASE e.tag = <<"p","a","t","t","e","r","n">> -> attribute_or(e, <<"p","a","t","t","e","r","n","C","o","n","t","e","n","t","U","n","i","t","s">>, <<>>) = ObjectBoundingBox
    [] e.tag = <<"f","i","l","t","e","r">> -> attribute_or(e, <<"p","r","i","m","i","t","i","v","e","U","n","i","t","s">>, <<>>) = ObjectBoundingBox
    [] e.tag = <<"m","a","r","k","e","r">> -> attribute_or(e, <<"m","a","r","k","e","r","U","n","i","t","s">>, <<>>) = <<"s","t","r","o","k","e","W","i","d","t","h">>
    [] OTHER -> FALSE

rule_style_props_sheet_on_top(rules, elems, i) ==
  merge_style_props(parse_style(attribute_or(elems[i], KeyStyle, <<>>)),
                    collect_matching_style_props(rules, NodeOf(elems, i)), 1)

\* lines 600-605: the cascade of the rules, then the inline style on top
rule_style_props(rules, elems, i) ==
  merge_style_props(collect_matching_style_props(rules, NodeOf(elems, i)),
                    parse_style(attribute_or(elems[i], KeyStyle, <<>>)), 1)

prop_or(props, key, default) ==
  IF position(props, key, 1) = 0 THEN default ELSE props[position(props, key, 1)][2]

has_non_scaling_stroke_attribute_only(e, props) ==
  attribute_or(e, KeyVectorEffect, <<>>) = NonScalingStroke

\* lines 618-625
has_non_scaling_stroke(e, props) ==
  \/ attribute_or(e, KeyVectorEffect, <<>>) = NonScalingStroke
  \/ \E p \in 1..Len(props) : props[p] = <<KeyVectorEffect, NonScalingStroke>>

\* Result<bool>
OkBool(val)    == [st |-> "ok", val |-> val, chain |-> <<>>]
ErrBool(chain) == [st |-> "err", val |-> FALSE, chain |-> chain]

\* svg.rs has_non_translate_transform, with the context walk_impl gives it
NonTranslateOf(transform, p, context) ==
  IF p.st = "ok" THEN OkBool(has_non_translate(p.list))
  ELSE ErrBool(<<context, InvalidTransform(transform)>>)

has_non_translate_transform(transform, context) ==
  IF transform = <<>> THEN OkBool(FALSE)
  ELSE NonTranslateOf(transform, parse_transform_list(transform), context)

\* lines 627-659: the attribute first, then the style property
NonTranslateBoth(a, style_transform, context) ==
  IF a.st = "err" THEN a
  ELSE IF has_non_translate_transform(style_transform, context).st = "err"
       THEN has_non_translate_transform(style_transform, context)
  ELSE OkBool(a.val \/ has_non_translate_transform(style_transform, context).val)

own_non_translate_transform(e, props) ==
  NonTranslateBoth(
    has_non_translate_transform(
      attribute_or(e, KeyTransform, <<>>),
      Msg("transform parse failed on <{}>", <<>>, e.tag, attribute_or(e, <<"i","d">>, <<>>), <<>>)),
    prop_or(props, KeyTransform, <<>>),
    Msg("transform parse failed in style on <{}>", <<>>, e.tag,
        attribute_or(e, <<"i","d">>, <<>>), <<>>))

\* what the loops of walk_impl know of the element
Env(tag, id, exempt, skip_scale_self, non_scaling_stroke) ==
  [tag |-> tag, id |-> id, exempt |-> exempt, skip_scale_self |-> skip_scale_self,
   non_scaling_stroke |-> non_scaling_stroke]

\* lines 779-796: every word is parsed and scaled, the first error ends it
RECURSIVE view_box_from(_, _, _, _, _)
ViewBoxWord(words, i, out, env, ctx, val) ==
  IF val.ok
  THEN view_box_from(words, i + 1, Append(out, fmt(ctx, FMul(val.val, ctx.scale))), env, ctx)
  ELSE Err(<<Msg("invalid viewBox on <{}>: {}", KeyViewBox, env.tag, env.id, words[i]),
             InvalidFloat>>)

view_box_from(words, i, out, env, ctx) ==
  IF i > Len(words) THEN Ok(join(out, <<" ">>))
  ELSE ViewBoxWord(words, i, out, env, ctx, from_str(words[i]))

\* the match of lines 691-812: the new value of attribute k
attribute_value(k, v, env, ctx) ==
  CASE k = KeyD ->
         IF env.exempt THEN Ok(v)
         ELSE with_context(PathResult(v, scale_path(v, ctx)),
                           Msg("scale path failed on <{}>", <<>>, env.tag, env.id, <<>>))
    [] k \in length_attributes ->
         IF env.exempt \/ (k = KeyStrokeWidth /\ env.non_scaling_stroke /\ ~ctx.fix_stroke)
         THEN Ok(v)
         ELSE with_context(scale_length_value(v, ctx),
                           Msg("invalid {} on <{}>: {}", k, env.tag, env.id, v))
    [] k \in number_list_attributes ->
         IF env.exempt \/ IsNone(v) THEN Ok(v) ELSE Ok(scale_number_list(v, ctx))
    [] k = KeyBaseFrequency ->
         IF env.exempt THEN Ok(v) ELSE Ok(scale_number_list_inverse(v, ctx))
    [] k \in {<<"g","r","a","d","i","e","n","t","T","r","a","n","s","f","o","r","m">>, <<"p","a","t","t","e","r","n","T","r","a","n","s","f","o","r","m">>} ->
         IF env.skip_scale_self THEN Ok(v)
         ELSE with_context(scale_transform_all(v, ctx.scale, ctx.precision),
                           Msg("transform scale failed on <{}>", <<>>, env.tag, env.id, <<>>))
    [] k = KeyViewBox -> view_box_from(split_whitespace(v), 1, <<>>, env, ctx)
    [] k = KeyTransform ->
         with_context(scale_transform_all(v, ctx.scale, ctx.precision),
                      Msg("transform scale failed on <{}>", <<>>, env.tag, env.id, <<>>))
    [] OTHER -> Ok(v)

\* what walk_impl has done with one element: the attributes written, the
\* error that ended it, and the two flags its children are walked with
Walked(st, attrs, chain, non_translate, skip_scale) ==
  [st |-> st, attrs |-> attrs, chain |-> chain, non_translate |-> non_translate,
   skip_scale |-> skip_scale]

\* the attribute loop of lines 668-815 from attribute i; out is what
\* write_attribute has written
RECURSIVE attributes_from(_, _, _, _, _)
AttributeWritten(attrs, i, out, env, ctx, nv) ==
  IF nv.st = "ok"
  THEN attributes_from(attrs, i + 1, Append(out, <<attrs[i][1], nv.text>>), env, ctx)
  ELSE Walked("err", out, nv.chain, FALSE, FALSE)

attributes_from(attrs, i, out, env, ctx) ==
  IF i > Len(attrs) THEN Walked("ok", out, <<>>, FALSE, FALSE)
  ELSE IF attrs[i][1] = KeyStyle \/ (ctx.fix_stroke /\ attrs[i][1] = KeyVectorEffect)
       THEN attributes_from(attrs, i + 1, out, env, ctx)
  ELSE AttributeWritten(attrs, i, out, env, ctx,
                        attribute_value(attrs[i][1], attrs[i][2], env, ctx))

\* the loop of lines 819-832 over the cascaded properties from property i
RECURSIVE style_props_from(_, _, _, _, _)
StylePropScaled(props, i, new_props, env, ctx, scaled) ==
  IF scaled.st = "ok"
  THEN style_props_from(props, i + 1, Append(new_props, <<props[i][1], scaled.text>>),
                        env, ctx)
  ELSE Walked("err", new_props, scaled.chain, FALSE, FALSE)

style_props_from(props, i, new_props, env, ctx) ==
  IF i > Len(props) THEN Walked("ok", new_props, <<>>, FALSE, FALSE)
  ELSE IF ctx.fix_stroke /\ props[i][1] = KeyVectorEffect
       THEN style_props_from(props, i + 1, new_props, env, ctx)
  ELSE StylePropScaled(props, i, new_props, env, ctx,
                       scale_style_value(props[i][1], props[i][2], ctx, env.exempt,
                                         env.non_scaling_stroke))

\* lines 817-838: the style attribute is written last, when a property is left
StyleWritten(written, sp, non_translate, skip_scale) ==
  IF sp.st = "err" THEN Walked("err", written, sp.chain, FALSE, FALSE)
  ELSE IF sp.attrs = <<>> THEN Walked("ok", written, <<>>, non_translate, skip_scale)
  ELSE Walked("ok", Append(written, <<KeyStyle, serialize_style(sp.attrs)>>), <<>>,
              non_translate, skip_scale)

AttributesWritten(wa, props, env, ctx, non_translate, skip_scale) ==
  IF wa.st = "err" THEN wa
  ELSE StyleWritten(wa.attrs, style_props_from(props, 1, <<>>, env, ctx),
                    non_translate, skip_scale)

child_skip_scale_content_only(e, ancestor_skip_scale, skip_scale_self) ==
  skip_children_due_to_content_units(e)

\* lines 662-666
child_skip_scale(e, ancestor_skip_scale, skip_scale_self) ==
  IF e.tag = <<"f","i","l","t","e","r">>
  THEN ancestor_skip_scale \/ skip_children_due_to_content_units(e)
  ELSE skip_scale_self \/ skip_children_due_to_content_units(e)

child_non_translate_own_only(ancestor_nt, own_nt) == own_nt

\* line 846: what the children are told of the transforms above them
child_non_translate(ancestor_nt, own_nt) == ancestor_nt \/ own_nt

\* line 661 and the two loops
WalkFlagged(e, props, ctx, ancestor_nt, own_nt, ancestor_skip_scale, skip_scale_self) ==
  AttributesWritten(
    attributes_from(e.attrs, 1, <<>>,
                    Env(e.tag, attribute_or(e, <<"i","d">>, <<>>),
                        ancestor_nt \/ own_nt \/ skip_scale_self, skip_scale_self,
                        has_non_scaling_stroke(e, props)),
                    ctx),
    props,
    Env(e.tag, attribute_or(e, <<"i","d">>, <<>>),
        ancestor_nt \/ own_nt \/ skip_scale_self, skip_scale_self,
        has_non_scaling_stroke(e, props)),
    ctx,
    child_non_translate(ancestor_nt, own_nt),
    child_skip_scale(e, ancestor_skip_scale, skip_scale_self))

WalkTransformed(e, props, ctx, ancestor_nt, ancestor_skip_scale, own) ==
  IF own.st = "err" THEN Walked("err", <<>>, own.chain, FALSE, FALSE)
  ELSE WalkFlagged(e, props, ctx, ancestor_nt, own.val, ancestor_skip_scale,
                   ancestor_skip_scale \/ skip_scale_due_to_units(e))

WalkCascaded(e, props, ctx, ancestor_nt, ancestor_skip_scale) ==
  WalkTransformed(e, props, ctx, ancestor_nt, ancestor_skip_scale,
                  own_non_translate_transform(e, props))

\* walk_impl on element i, up to the loop over its children
walk_impl(elems, i, ctx, ancestor_has_non_translate_transform, ancestor_skip_scale, style_rules) ==
  WalkCascaded(elems[i], rule_style_props(style_rules, elems, i), ctx,
               ancestor_has_non_translate_transform, ancestor_skip_scale)

(***************************************************************************)
(* Document scaler: the pipeline                                           *)
(***************************************************************************)
\* the state of normal_pipeline: the size being converted, the rules of the
\* document, the next element to walk, the flags each walked element hands
\* to its children, what the XmlWriter holds, the documents written out, and
\* the error the pipeline ended with
Pipeline(st, k, rules, pos, flags, writer, files, chain) ==
  [st |-> st, k |-> k, rules |-> rules, pos |-> pos, flags |-> flags,
   writer |-> writer, files |-> files, chain |-> chain]

\* what the writer holds of one element
Emitted(tag, attrs, text) == [tag |-> tag, attrs |-> attrs, text |-> text]

\* the flags walk_impl hands to its children
Flags(non_translate, skip_scale) ==
  [non_translate |-> non_translate, skip_scale |-> skip_scale]

\* the flags element i is walked with: those of its parent, or false at the root
FlagsFor(elems, i, flags) ==
  IF elems[i].parent = 0 THEN Flags(FALSE, FALSE) ELSE flags[elems[i].parent]

CtxOf(c, k) == ScaleCtx(c.scales[k], c.precision, c.fix_stroke)

\* main.rs write_svg for size k: a new writer, and walk collects the rules
StartSvg(k, files) ==
  /\ call.fn = "normal_pipeline"
  /\ k <= Len(call.scales)
  /\ ret' = Pipeline("walking", k, collect_style_rules(style_texts(call.elems, 1)), 1,
                     <<>>, <<>>, files, <<>>)
  /\ UNCHANGED call

WriteSvg ==
  /\ ret = Pending \/ ret.st = "written"
  /\ StartSvg(IF ret = Pending THEN 1 ELSE ret.k + 1,
              IF ret = Pending THEN <<>> ELSE ret.files)

WalkStep_error_ignored(e, w) ==
  Pipeline("walking", ret.k, ret.rules, ret.pos + 1,
           Append(ret.flags, Flags(w.non_translate, w.skip_scale)),
           Append(ret.writer, Emitted(e.tag, w.attrs, e.text)), ret.files,
           ret.chain \o w.chain)

\* the outcome of walk_impl on the next element: it is in the writer with
\* the attributes written, or its error ends the pipeline (the ? of
\* main.rs:66 and 223)
WalkStep(e, w) ==
  IF w.st = "ok"
  THEN Pipeline("walking", ret.k, ret.rules, ret.pos + 1,
                Append(ret.flags, Flags(w.non_translate, w.skip_scale)),
                Append(ret.writer, Emitted(e.tag, w.attrs, e.text)), ret.files,
                ret.chain)
  ELSE Pipeline("err", ret.k, ret.rules, ret.pos, ret.flags,
                Append(ret.writer, Emitted(e.tag, w.attrs, <<>>)), ret.files, w.chain)

\* svg.rs walk_impl on the next element of the pre-order
WalkImpl ==
  /\ ret.st = "walking"
  /\ ret.pos <= Len(call.elems)
  /\ ret' = WalkStep(call.elems[ret.pos],
                     walk_impl(call.elems, ret.pos, CtxOf(call, ret.k),
                               FlagsFor(call.elems, ret.pos, ret.flags).non_translate,
                               FlagsFor(call.elems, ret.pos, ret.flags).skip_scale,
                               ret.rules))
  /\ UNCHANGED call

\* write_svg returns the document and normal_pipeline writes it out
Output ==
  /\ ret.st = "walking"
  /\ ret.pos > Len(call.elems)
  /\ ret' = Pipeline(IF ret.k = Len(call.scales) THEN "done" ELSE "written",
                     ret.k, ret.rules, ret.pos, ret.flags, ret.writer,
                     Append(ret.files, [scale |-> call.scales[ret.k], doc |-> ret.writer]),
                     ret.chain)
  /\ UNCHANGED call

NextPipeline == WriteSvg \/ WalkImpl \/ Output

(***************************************************************************)
(* Document inputs                                                         *)
(***************************************************************************)
MaxDepth == 2  \* most elements between the root and the innermost element

TagSvg   == <<"s","v","g">>
TagG     == <<"g">>
KeyId    == <<"i","d">>
KeyClass == <<"c","l","a","s","s">>

\* one element of a chain: its tag and attributes
Item(tag, attrs) == <<tag, attrs>>

\* <svg ..><style>text</style><c1><c2>..<cn/>..</c2></c1></svg> as the
\* pre-order list of its elements; without text there is no <style>
Doc(root_attrs, style_text, chain) ==
  <<Element(TagSvg, root_attrs, <<>>, 0)>>
    \o (IF style_text = <<>> THEN <<>> ELSE <<Element(KeyStyle, <<>>, style_text, 1)>>)
    \o [j \in 1..Len(chain) |->
          Element(chain[j][1], chain[j][2], <<>>,
                  IF j = 1 THEN 1
                  ELSE (IF style_text = <<>> THEN 2 ELSE 3) + j - 2)]

\* the chains of at most n items of a pool, closed by a leaf
Chains(pool, n, leaves) ==
  {c \o <<l>> : c \in UNION {[1..k -> pool] : k \in 0..n}, l \in leaves}

PipelineCall(elems, scales, precision, fix_stroke) ==
  [fn |-> "normal_pipeline", elems |-> elems, scales |-> scales,
   precision |-> precision, fix_stroke |-> fix_stroke]

\* the cascade of the test, with keys only the stylesheet sets
SheetCascade ==
  <<"r","e","c","t","{","w","i","d","t","h",":","1","0",";","h","e","i","g","h","t",":","2","0","}","#","s","o","l","o","{","w","i","d","t","h",":","3","0",";","w","i","d","t","h",":","4","0","}",".","b","i","g","{","f","i","l","l",":","r","e","d",";","v","e","c","t","o","r","-","e","f","f","e","c","t",":","n","o","n","-","s","c","a","l","i","n","g","-","s","t","r","o","k","e","}">>

\* one rule for each combinator case, each with a key of its own
SheetCombinators ==
  <<"g"," ","r","e","c","t","{","a",":","1","}","g"," ",">"," ","r","e","c","t","{","b",":","1","}","s","v","g"," ",">"," ","r","e","c","t","{","c",":","1","}","s","v","g"," ","r","e","c","t","{","e",":","1","}","r","e","c","t"," ","r","e","c","t","{","f",":","1","}",".","c"," ",">"," ","r","e","c","t","{","h",":","1","}","r","e","c","t"," ",">"," ","r","e","c","t","{","i",":","1","}">>

SelectContainers ==
  {Item(TagG, <<>>), Item(TagG, <<<<KeyClass, <<"c">>>>>>), Item(<<"a">>, <<>>), Item(TagRect, <<>>)}

SelectLeaves ==
  {Item(TagRect, <<<<KeyId, <<"s","o","l","o">>>>, <<KeyClass, <<"b","i","g">>>>,
                   <<KeyStyle, <<"w","i","d","t","h",":","5",";","s","t","r","o","k","e",":","b","l","u","e">>>>>>),
   Item(TagRect, <<>>),
   Item(TagRect, <<<<KeyClass, <<"b","i","g">>>>, <<KeyStyle, <<"w","i","d","t","h",":","5",";"," ","h","e","i","g","h","t",":","6"," ",";","w","i","d","t","h",":","7">>>>>>)}

SelectCalls(maxDepth) ==
  {PipelineCall(Doc(<<>>, sheet, chain), <<Two>>, DefaultPrecision, fix) :
     sheet \in {SheetCascade, SheetCombinators, SheetCascade \o SheetCombinators},
     chain \in Chains(SelectContainers, maxDepth, SelectLeaves),
     fix \in BOOLEAN}

InitSelect == call \in SelectCalls(MaxDepth) /\ ret = Pending
SpecSelect == InitSelect /\ [][NextPipeline]_vars

\* the rules the exemption documents carry: a transform and a vector-effect
\* that reach an element through the cascade
SheetExempt == <<".","t","{","t","r","a","n","s","f","o","r","m",":","s","c","a","l","e","(","2",")","}",".","n","{","v","e","c","t","o","r","-","e","f","f","e","c","t",":","n","o","n","-","s","c","a","l","i","n","g","-","s","t","r","o","k","e","}">>

RootViewBox == <<<<KeyViewBox, <<"0"," ","0"," ","2","4"," ","2","4">>>>>>

\* the outermost containers: plain, translated, scaled (by attribute, inline
\* style, stylesheet), and clip paths in either unit system
ExemptContainers ==
  {Item(TagG, <<>>),
   Item(TagG, <<<<KeyTransform, <<"t","r","a","n","s","l","a","t","e","(","1",",","2",")">>>>>>),
   Item(TagG, <<<<KeyTransform, <<"s","c","a","l","e","(","2",")">>>>>>),
   Item(TagG, <<<<KeyStyle, <<"t","r","a","n","s","f","o","r","m",":","r","o","t","a","t","e","(","0",")">>>>>>),
   Item(TagG, <<<<KeyClass, <<"t">>>>>>),
   Item(<<"c","l","i","p","P","a","t","h">>, <<<<<<"c","l","i","p","P","a","t","h","U","n","i","t","s">>, ObjectBoundingBox>>>>),
   Item(<<"c","l","i","p","P","a","t","h">>, <<<<<<"c","l","i","p","P","a","t","h","U","n","i","t","s">>, <<"u","s","e","r","S","p","a","c","e","O","n","U","s","e">>>>>>)}

ExemptLeaves ==
  {Item(<<"p","a","t","h">>, <<<<KeyD, <<"M","1","0"," ","2","0"," ","L","1",".","5"," ","3">>>>, <<KeyStrokeWidth, <<"2">>>>>>),
   Item(TagRect, <<<<<<"x">>, <<"1">>>>, <<KeyWidth, <<"1","0","p","x">>>>, <<KeyDasharray, <<"4"," ","2">>>>>>),
   Item(TagRect, <<<<KeyWidth, <<"1","0">>>>, <<KeyStrokeWidth, <<"2">>>>,
                   <<KeyVectorEffect, NonScalingStroke>>>>),
   Item(TagRect, <<<<KeyStyle, <<"s","t","r","o","k","e","-","w","i","d","t","h",":","2",";","v","e","c","t","o","r","-","e","f","f","e","c","t",":","n","o","n","-","s","c","a","l","i","n","g","-","s","t","r","o","k","e",";","w","i","d","t","h",":","1","0">>>>>>),
   Item(<<"f","e","T","u","r","b","u","l","e","n","c","e">>, <<<<KeyBaseFrequency, <<"0",".","5"," ","2">>>>, <<<<"s","t","d","D","e","v","i","a","t","i","o","n">>, <<"2"," ","4">>>>,
                          <<KeyStyle, <<"b","a","s","e","F","r","e","q","u","e","n","c","y",":","0",".","5",";","s","t","r","o","k","e","-","d","a","s","h","a","r","r","a","y",":","4"," ","2">>>>>>),
   Item(TagRect, <<<<KeyTransform, <<"s","c","a","l","e","(","2",")">>>>, <<KeyWidth, <<"1","0">>>>>>),
   Item(TagRect, <<<<KeyTransform, <<"t","r","a","n","s","l","a","t","e","(","1",")">>>>, <<KeyWidth, <<"1","0">>>>>>),
   Item(TagRect, <<<<KeyClass, <<"n">>>>, <<KeyWidth, <<"1","0">>>>, <<KeyStrokeWidth, <<"2">>>>>>)}

\* a container, at most maxDepth - 1 plain groups, and a leaf
ExemptChains(maxDepth) ==
  {<<c>> \o mid \o <<l>> :
     c \in ExemptContainers,
     mid \in {[j \in 1..k |-> Item(TagG, <<>>)] : k \in 0..(maxDepth - 1)},
     l \in ExemptLeaves}

WalkCalls(maxDepth) ==
  {PipelineCall(Doc(RootViewBox, SheetExempt, chain), <<scale>>, DefaultPrecision, fix) :
     chain \in ExemptChains(maxDepth), scale \in {Two, Half}, fix \in BOOLEAN}

InitWalk == call \in WalkCalls(MaxDepth) /\ ret = Pending
SpecWalk == InitWalk /\ [][NextPipeline]_vars

MaxSizes == 2  \* most target sizes of one run, each written to a file of its own

\* a rule whose declaration reaches every rect with a malformed length
SheetBroken == <<"r","e","c","t","{","w","i","d","t","h",":","-","-","3","}">>

\* the attributes of the innermost element: one value of each scaled kind,
\* well-formed in the first and malformed in the others
FailAttributes ==
  {<<<<KeyWidth, <<"1","0">>>>>>,
   <<<<KeyWidth, <<"1",".",".","2">>>>>>,
   <<<<<<"x">>, <<"-","-","3","p","x">>>>>>,
   <<<<KeyStyle, <<"w","i","d","t","h",":","1",".",".","2">>>>>>,
   <<<<KeyD, <<"M","1","0"," ","x">>>>>>,
   <<<<KeyTransform, <<"r","o","t","a","t","e","(">>>>>>,
   <<<<KeyStyle, <<"t","r","a","n","s","f","o","r","m",":","r","o","t","a","t","e","(">>>>>>,
   <<<<KeyTransform, <<"m","a","t","r","i","x","(","1",",","2",")">>>>>>,
   <<<<KeyDasharray, <<"1",".",".","2"," ","3">>>>>>,
   <<<<<<"s","t","d","D","e","v","i","a","t","i","o","n">>, <<"-","-","3">>>>>>,
   <<<<KeyBaseFrequency, <<"1",".",".","2">>>>>>,
   <<<<KeyStyle, <<"s","t","r","o","k","e","-","d","a","s","h","a","r","r","a","y",":","1",".",".","2">>>>>>,
   <<<<KeyViewBox, <<"0"," ","0"," ","1",".",".","2"," ","1","0">>>>>>}

\* a circle with these attributes, with and without an id; the rect of the
\* last leaf is reached by the rule of SheetBroken
FailLeaves ==
  {Item(<<"c","i","r","c","l","e">>, attrs) : attrs \in FailAttributes}
    \cup {Item(<<"c","i","r","c","l","e">>, <<<<KeyId, <<"a">>>>>> \o attrs) : attrs \in FailAttributes}
    \cup {Item(TagRect, <<<<KeyId, <<"a">>>>, <<KeyWidth, <<"1","0">>>>>>)}

\* the target sizes of a run, as scales
Sizes(maxSizes) == UNION {[1..n -> {Two, Half}] : n \in 1..maxSizes}

FailCalls(maxDepth, maxSizes) ==
  {PipelineCall(Doc(RootViewBox, sheet, chain), scales, DefaultPrecision, FALSE) :
     sheet \in {<<>>, SheetBroken},
     chain \in Chains({Item(TagG, <<<<KeyId, <<"t","o","p">>>>>>)}, maxDepth, FailLeaves),
     scales \in Sizes(maxSizes)}

InitFail == call \in FailCalls(MaxDepth, MaxSizes) /\ ret = Pending
SpecFail == InitFail /\ [][NextPipeline]_vars

\* the attributes of the elements scaled by 1: numbers with trailing zeros,
\* with more digits than the precision keeps, and in other spellings
IdentityAttributes ==
  {<<<<KeyD, <<"M","1","0",".","0"," ","2","0",".","5","0"," ","L","3"," ","4">>>>>>,
   <<<<KeyD, <<"M","0",".","1","2","3","4","6"," ","1","e","1"," ","L",".","5"," ","+","5">>>>>>,
   <<<<KeyWidth, <<"1","0",".","0">>>>>>,
   <<<<KeyWidth, <<"0",".","1","2","3","4","6","p","x">>>>>>,
   <<<<KeyWidth, <<".","5","m","m">>>>>>,
   <<<<KeyWidth, <<"1","e","1">>>>>>,
   <<<<KeyDasharray, <<"4",".","0"," ","2",".","5","0">>>>>>,
   <<<<KeyDasharray, <<"0",".","1","2","3","4","6"," ","1">>>>>>,
   <<<<KeyBaseFrequency, <<"0",".","5","0">>>>>>,
   <<<<KeyViewBox, <<"0"," ","0"," ","2","4",".","0"," ","0",".","1","2","3","4","6">>>>>>,
   <<<<KeyTransform, <<"t","r","a","n","s","l","a","t","e","(","1","0",".","0",",","5",")">>>>>>,
   <<<<KeyTransform, <<"t","r","a","n","s","l","a","t","e","(","1",",","2",")"," ","t","r","a","n","s","l","a","t","e","(","0",".","1","2","3","4","6",")">>>>>>,
   <<<<KeyTransform, <<"s","c","a","l","e","(","2",".","0",")">>>>>>,
   <<<<KeyTransform, <<"s","c","a","l","e","(","2",")"," ","t","r","a","n","s","l","a","t","e","(","3",",","4",")">>>>>>,
   <<<<KeyTransform, <<"r","o","t","a","t","e","(","0",")">>>>>>,
   <<<<KeyTransform, <<"m","a","t","r","i","x","(","1",",","0",",","0",",","1",",","5",".","0",",","5",")">>>>>>,
   <<<<KeyStyle, <<"w","i","d","t","h",":","1","0",".","0",";","s","t","r","o","k","e","-","d","a","s","h","a","r","r","a","y",":","4",".","0"," ","2",";","h","e","i","g","h","t",":","0",".","1","2","3","4","6">>>>>>}

IdentityCalls(maxDepth) ==
  {PipelineCall(Doc(RootViewBox, <<>>, chain), <<One>>, DefaultPrecision, fix) :
     chain \in Chains({Item(TagG, <<>>)}, maxDepth,
                      {Item(TagRect, attrs) : attrs \in IdentityAttributes}),
     fix \in BOOLEAN}

InitIdentity == call \in IdentityCalls(MaxDepth) /\ ret = Pending
SpecIdentity == InitIdentity /\ [][NextPipeline]_vars

MaxLengthLen == 3  \* most characters of a length text drawn character by character

\* length text drawn character by character
LengthAlphabet == {"1", ".", "-", " ", "%", "p", "x"}

\* the units a number is written with: the supported ones, %, and others
UnitWords == {<<>>, <<"p","x">>, <<"p","t">>, <<"p","c">>, <<"m","m">>, <<"c","m">>, <<"i","n">>, <<"%">>, <<"e","m">>, <<"e","x">>, <<"r","e","m">>, <<"q">>, <<"e">>, <<"e","p","x">>}

\* lengths with a number and a unit, keywords, and numbers with an exponent
LengthWords ==
  {num \o unit : num \in {<<"1",".","5">>, <<"-","2">>, <<"-">>}, unit \in UnitWords}
    \cup {<<" ","1"," ","m","m"," ">>, <<"a","u","t","o">>, <<"n","o","n","e">>, <<"1","e","1">>, <<"1","e","1","p","x">>, <<"1","e">>, <<"1",".","5"," ","%">>}

LengthTexts(maxLen) == Texts(LengthAlphabet, maxLen) \cup LengthWords

LengthCalls(maxLen) ==
  {PipelineCall(Doc(RootViewBox, <<>>, <<Item(TagRect, <<<<KeyWidth, text>>>>)>>),
                <<scale>>, DefaultPrecision, FALSE) :
     text \in LengthTexts(maxLen), scale \in {Two, Half}}

InitLength == call \in LengthCalls(MaxLengthLen) /\ ret = Pending
SpecLength == InitLength /\ [][NextPipeline]_vars

\* a key of each category with a value of it, and an opaque one
KeyValues ==
  {<<KeyWidth, <<"1","0">>>>, <<<<"f","x">>, <<"1","0">>>>, <<<<"f","y">>, <<"4","p","x">>>>, <<<<"s","c","a","l","e">>, <<"3">>>>,
   <<KeyD, <<"M","1"," ","2","L","3"," ","4">>>>, <<KeyViewBox, <<"0"," ","0"," ","4"," ","4">>>>,
   <<<<"g","r","a","d","i","e","n","t","T","r","a","n","s","f","o","r","m">>, <<"t","r","a","n","s","l","a","t","e","(","2",")">>>>, <<<<"p","a","t","t","e","r","n","T","r","a","n","s","f","o","r","m">>, <<"s","c","a","l","e","(","3",")">>>>,
   <<KeyTransform, <<"t","r","a","n","s","l","a","t","e","(","2",",","3",")">>>>, <<KeyTransform, <<"s","c","a","l","e","(","3",")">>>>,
   <<KeyDasharray, <<"4"," ","2">>>>, <<KeyDasharray, <<"n","o","n","e">>>>, <<<<"s","t","d","D","e","v","i","a","t","i","o","n">>, <<"1",".","5">>>>,
   <<KeyBaseFrequency, <<"0",".","0","5"," ","0",".","1">>>>, <<KeyBaseFrequency, <<"0",".","0","5",",","0",".","1">>>>,
   <<KeyStrokeWidth, <<"2">>>>, <<<<"f","i","l","l">>, <<"r","e","d">>>>}

\* the element around the two: plain, with a non-translate transform, and
\* one whose content units exempt what it holds
KeyContainers ==
  {Item(TagG, <<>>),
   Item(TagG, <<<<KeyTransform, <<"s","c","a","l","e","(","2",")">>>>>>),
   Item(<<"p","a","t","t","e","r","n">>, <<<<<<"p","a","t","t","e","r","n","C","o","n","t","e","n","t","U","n","i","t","s">>, ObjectBoundingBox>>>>)}

\* the attributes of the element that has the key as attribute: alone, and
\* with a style attribute before it, after it, and between an id and it
KeyLayouts(kv) ==
  {<<kv>>,
   <<<<KeyStyle, <<"h","e","i","g","h","t",":","5">>>>, kv>>,
   <<kv, <<KeyStyle, <<"h","e","i","g","h","t",":","5">>>>>>,
   <<<<KeyId, <<"a">>>>, <<KeyStyle, <<"h","e","i","g","h","t",":","5">>>>, kv>>}

\* the document d and, beside its innermost element, one more element
WithSibling(d, item) == Append(d, Element(item[1], item[2], <<>>, Len(d) - 1))

\* a container that holds an element with the key as attribute and, after
\* it, one with the key as style property
KeyCallsOf(kv, maxDepth) ==
  {PipelineCall(
     WithSibling(Doc(RootViewBox, <<>>,
                     wrappers \o <<container, Item(TagRect, attrs)>>),
                 Item(TagRect, <<<<KeyStyle, kv[1] \o <<":">> \o kv[2]>>>>)),
     <<scale>>, DefaultPrecision, FALSE) :
     wrappers \in UNION {[1..n -> {Item(TagG, <<>>)}] : n \in 0..(maxDepth - 1)},
     container \in KeyContainers,
     attrs \in KeyLayouts(kv),
     scale \in {Two, Half}}

KeyCalls(maxDepth) == UNION {KeyCallsOf(kv, maxDepth) : kv \in KeyValues}

InitKeys == call \in KeyCalls(MaxDepth) /\ ret = Pending
SpecKeys == InitKeys /\ [][NextPipeline]_vars

UserSpaceOnUse == <<"u","s","e","r","S","p","a","c","e","O","n","U","s","e">>
StrokeWidthUnits == <<"s","t","r","o","k","e","W","i","d","t","h">>

\* the region every filter, pattern and mask of the inputs declares
UnitRegion == <<<<<<"x">>, <<"1">>>>, <<<<"y">>, <<"2">>>>, <<KeyWidth, <<"1","0">>>>, <<KeyHeight, <<"2","0">>>>>>

\* the geometry every marker of the inputs declares
MarkerGeometry ==
  <<<<<<"m","a","r","k","e","r","W","i","d","t","h">>, <<"4">>>>, <<<<"m","a","r","k","e","r","H","e","i","g","h","t">>, <<"6">>>>, <<<<"r","e","f","X">>, <<"2">>>>, <<<<"r","e","f","Y">>, <<"3">>>>>>

\* the elements with a units attribute: each unit system of the element
\* itself and of its content, given and left out
UnitElements ==
  {Item(<<"f","i","l","t","e","r">>, units \o UnitRegion) :
     units \in {<<>>, <<<<<<"f","i","l","t","e","r","U","n","i","t","s">>, ObjectBoundingBox>>>>,
                <<<<<<"f","i","l","t","e","r","U","n","i","t","s">>, UserSpaceOnUse>>>>,
                <<<<<<"p","r","i","m","i","t","i","v","e","U","n","i","t","s">>, ObjectBoundingBox>>>>,
                <<<<<<"f","i","l","t","e","r","U","n","i","t","s">>, UserSpaceOnUse>>, <<<<"p","r","i","m","i","t","i","v","e","U","n","i","t","s">>, ObjectBoundingBox>>>>,
                <<<<<<"f","i","l","t","e","r","U","n","i","t","s">>, ObjectBoundingBox>>, <<<<"p","r","i","m","i","t","i","v","e","U","n","i","t","s">>, ObjectBoundingBox>>>>}}
  \cup
  {Item(<<"p","a","t","t","e","r","n">>, units \o UnitRegion) :
     units \in {<<>>, <<<<<<"p","a","t","t","e","r","n","U","n","i","t","s">>, ObjectBoundingBox>>>>,
                <<<<<<"p","a","t","t","e","r","n","U","n","i","t","s">>, UserSpaceOnUse>>>>,
                <<<<<<"p","a","t","t","e","r","n","C","o","n","t","e","n","t","U","n","i","t","s">>, ObjectBoundingBox>>>>,
                <<<<<<"p","a","t","t","e","r","n","U","n","i","t","s">>, UserSpaceOnUse>>, <<<<"p","a","t","t","e","r","n","C","o","n","t","e","n","t","U","n","i","t","s">>, ObjectBoundingBox>>>>,
                <<<<<<"p","a","t","t","e","r","n","U","n","i","t","s">>, ObjectBoundingBox>>, <<<<"p","a","t","t","e","r","n","C","o","n","t","e","n","t","U","n","i","t","s">>, ObjectBoundingBox>>>>}}
  \cup
  {Item(<<"m","a","s","k">>, units \o UnitRegion) :
     units \in {<<>>, <<<<<<"m","a","s","k","U","n","i","t","s">>, ObjectBoundingBox>>>>}}
  \cup
  {Item(<<"l","i","n","e","a","r","G","r","a","d","i","e","n","t">>, units \o <<<<<<"x","1">>, <<"1">>>>, <<<<"x","2">>, <<"5">>>>>>) :
     units \in {<<>>, <<<<<<"g","r","a","d","i","e","n","t","U","n","i","t","s">>, ObjectBoundingBox>>>>}}
  \cup
  {Item(<<"m","a","r","k","e","r">>, units \o MarkerGeometry) :
     units \in {<<>>, <<<<<<"m","a","r","k","e","r","U","n","i","t","s">>, StrokeWidthUnits>>>>,
                <<<<<<"m","a","r","k","e","r","U","n","i","t","s">>, UserSpaceOnUse>>>>}}

\* the elements between such an element and the innermost one: a group, and
\* elements that declare user space units themselves
UnitMiddles ==
  {Item(TagG, <<>>),
   Item(<<"f","i","l","t","e","r">>, <<<<<<"f","i","l","t","e","r","U","n","i","t","s">>, UserSpaceOnUse>>, <<<<"p","r","i","m","i","t","i","v","e","U","n","i","t","s">>, UserSpaceOnUse>>,
                     <<KeyWidth, <<"8">>>>>>),
   Item(<<"p","a","t","t","e","r","n">>, <<<<<<"p","a","t","t","e","r","n","U","n","i","t","s">>, UserSpaceOnUse>>, <<KeyWidth, <<"8">>>>>>)}

\* the innermost element: a shape, a filter primitive, a path
UnitLeaves ==
  {Item(TagRect, <<<<<<"x">>, <<"1">>>>, <<KeyWidth, <<"1","0">>>>>>),
   Item(<<"f","e","O","f","f","s","e","t">>, <<<<<<"d","x">>, <<"2">>>>, <<<<"d","y">>, <<"3">>>>>>),
   Item(<<"p","a","t","h">>, <<<<KeyD, <<"M","1"," ","2","L","3"," ","4">>>>, <<KeyStrokeWidth, <<"2">>>>>>)}

UnitCalls(maxDepth) ==
  {PipelineCall(Doc(RootViewBox, <<>>, <<unit>> \o middles \o <<leaf>>),
                <<scale>>, DefaultPrecision, FALSE) :
     unit \in UnitElements,
     middles \in UNION {[1..n -> UnitMiddles] : n \in 0..(maxDepth - 1)},
     leaf \in UnitLeaves,
     scale \in {Two, Half}}

InitUnits == call \in UnitCalls(MaxDepth) /\ ret = Pending
SpecUnits == InitUnits /\ [][NextPipeline]_vars

\* nested transforms: groups without a transform, translated, scaled, and
\* translated and scaled, around a rect at (1,2) with or without a transform
\* of its own
NestedContainers ==
  {Item(TagG, <<>>),
   Item(TagG, <<<<KeyTransform, <<"t","r","a","n","s","l","a","t","e","(","1",",","2",")">>>>>>),
   Item(TagG, <<<<KeyTransform, <<"s","c","a","l","e","(","2",")">>>>>>),
   Item(TagG, <<<<KeyTransform, <<"t","r","a","n","s","l","a","t","e","(","3",")"," ","s","c","a","l","e","(","2",")">>>>>>)}

NestedPoint == <<<<<<"x">>, <<"1">>>>, <<<<"y">>, <<"2">>>>>>

NestedLeaves ==
  {Item(TagRect, NestedPoint),
   Item(TagRect, <<<<KeyTransform, <<"t","r","a","n","s","l","a","t","e","(","1","0",",","5",")">>>>>> \o NestedPoint),
   Item(TagRect, <<<<KeyTransform, <<"s","c","a","l","e","(","3",")">>>>>> \o NestedPoint),
   Item(TagRect, <<<<KeyTransform, <<"m","a","t","r","i","x","(","1",",","0",",","0",",","1",",","4",",","0",")">>>>>> \o NestedPoint)}

NestedCalls(maxDepth) ==
  {PipelineCall(Doc(<<>>, <<>>, chain), <<scale>>, DefaultPrecision, FALSE) :
     chain \in Chains(NestedContainers, maxDepth, NestedLeaves),
     scale \in {Two, Half}}

InitNested == call \in NestedCalls(MaxDepth) /\ ret = Pending
SpecNested == InitNested /\ [][NextPipeline]_vars

(***************************************************************************)
(* Path grammar scaler: what the claims speak of                           *)
(***************************************************************************)
\* index of the last command letter before part i (0: none)
RECURSIVE LastCmdBefore(_, _)
LastCmdBefore(parts, i) ==
  IF i <= 1 THEN 0
  ELSE IF parts[i - 1].kind = "Cmd" THEN i - 1
  ELSE LastCmdBefore(parts, i - 1)

\* the command letter in force at part i
CmdAt(parts, i) ==
  IF LastCmdBefore(parts, i) = 0 THEN "none"
  ELSE parts[LastCmdBefore(parts, i)].raw[1]

\* how many numbers stand between that command letter and part i
NumIndexAt(parts, i) ==
  Cardinality({j \in (LastCmdBefore(parts, i) + 1)..(i - 1) : parts[j].kind = "Num"})

\* part i is an arc rotation or an arc flag
ArcVerbatim(parts, i) ==
  /\ parts[i].kind = "Num"
  /\ CmdAt(parts, i) \in {"A", "a"}
  /\ NumIndexAt(parts, i) % 7 \in {2, 3, 4}

ScaledNum(parts, i) == parts[i].kind = "Num" /\ ~ArcVerbatim(parts, i)

ExpectedPiece(parts, i, ctx) ==
  IF ScaledNum(parts, i)
  THEN fmt(ctx, FMul(parts[i].val, ctx.scale))
  ELSE parts[i].raw

PathDone == call.fn = "scale_path" /\ ret.st = "ok"

\* C1: in every rewritten path each number is value * scale reformatted,
\* except the numbers 2, 3, 4 (mod 7) after an A or a, which are copied as
\* written; a command letter restarts the count; the arc of the tests at
\* scale 2 gives "M20 20 A 10 10 0 0 1 40 40".
C1_ArcParametersVerbatim ==
  PathDone =>
    LET parts == parse_parts(call.d).parts
    IN /\ ret.out = Concat([i \in 1..Len(parts) |-> ExpectedPiece(parts, i, call.ctx)])
       /\ (call.d = ArcFlagsText /\ call.ctx = ScaleCtx(Two, DefaultPrecision, FALSE)
             => ret.out = ArcFlagsOut)

\* an arc with ten numbers: number 9 is a flag of the second group, number 7
\* a radius of it, and both would change if scaled
C1_Witness ==
  /\ PathDone
  /\ LET parts == parse_parts(call.d).parts
     IN \E i, j \in 1..Len(parts) :
          /\ parts[i].kind = "Num" /\ parts[j].kind = "Num"
          /\ CmdAt(parts, i) = "A" /\ CmdAt(parts, j) = "A"
          /\ NumIndexAt(parts, i) = 9 /\ NumIndexAt(parts, j) = 7
          /\ parts[i].raw # fmt(call.ctx, FMul(parts[i].val, call.ctx.scale))
          /\ parts[j].raw # fmt(call.ctx, FMul(parts[j].val, call.ctx.scale))

\* the text of the claim's grammar for a number:
\* [+-]? digits? (. digits)? ([eE] [+-]? digits)?, with a digit in the mantissa
ClaimExponent(t, e) ==
  IF e = Len(t) + 1 THEN TRUE
  ELSE /\ t[e] \in {"e", "E"}
       /\ SpanDigits(t, SkipSign(t, e + 1)) > SkipSign(t, e + 1)
       /\ SpanDigits(t, SkipSign(t, e + 1)) = Len(t) + 1

ClaimMantissa(t, i1, d1) ==
  IF d1 <= Len(t) /\ t[d1] = "."
  THEN SpanDigits(t, d1 + 1) > d1 + 1 /\ ClaimExponent(t, SpanDigits(t, d1 + 1))
  ELSE d1 > i1 /\ ClaimExponent(t, d1)

ClaimNumber(t) ==
  t # <<>> /\ ClaimMantissa(t, SkipSign(t, 1), SpanDigits(t, SkipSign(t, 1)))

ClaimSeparator(c) ==
  ~is_ascii_alphabetic(c) /\ ~is_ascii_digit(c) /\ c \notin {"+", "-", "."}

\* s[i..] is a sequence of command letters, numbers and separators
RECURSIVE InClaimGrammar(_, _)
InClaimGrammar(s, i) ==
  \/ i > Len(s)
  \/ /\ i <= Len(s)
     /\ \/ (s[i] \in path_commands \/ ClaimSeparator(s[i])) /\ InClaimGrammar(s, i + 1)
        \/ \E j \in (i + 1)..(Len(s) + 1) :
             ClaimNumber(SubSeq(s, i, j - 1)) /\ InClaimGrammar(s, j)

NumberText(t) ==
  \/ t \in {<<"N","a","N">>, <<"i","n","f">>, <<"-","i","n","f">>}
  \/ \A k \in 1..Len(t) :
       is_ascii_digit(t[k]) \/ t[k] = "." \/ (t[k] = "-" /\ k = 1)

\* out[j..] is parts[i..] with every separator, command letter and arc
\* rotation or flag as written, and a number text for every other number
RECURSIVE Framed(_, _, _, _)
Framed(parts, i, out, j) ==
  IF i > Len(parts) THEN j = Len(out) + 1
  ELSE IF ScaledNum(parts, i)
       THEN \E k \in j..(Len(out) + 1) :
              NumberText(SubSeq(out, j, k - 1)) /\ Framed(parts, i + 1, out, k)
       ELSE /\ j + Len(parts[i].raw) - 1 <= Len(out)
            /\ SubSeq(out, j, j + Len(parts[i].raw) - 1) = parts[i].raw
            /\ Framed(parts, i + 1, out, j + Len(parts[i].raw))

\* C3: the output is the input's tokens in order, every separator, command
\* letter and unscaled number (arc rotation, arc flags) byte for byte as in
\* the input; only the scaled numbers are rewritten.
C3_OnlyScaledNumbersRewritten ==
  PathDone => /\ Concat([i \in 1..Len(parse_parts(call.d).parts) |->
                           parse_parts(call.d).parts[i].raw]) = call.d
              /\ Framed(parse_parts(call.d).parts, 1, ret.out, 1)

\* a path with a command letter, a separator, an arc flag kept as written
\* and a coordinate that was rewritten
C3_Witness ==
  /\ PathDone
  /\ ret.out # call.d
  /\ LET parts == parse_parts(call.d).parts
     IN /\ \E i \in 1..Len(parts) : parts[i].kind = "Sep"
        /\ \E i \in 1..Len(parts) : parts[i].kind = "Cmd"
        /\ \E i \in 1..Len(parts) : ArcVerbatim(parts, i)
        /\ \E i \in 1..Len(parts) :
             ScaledNum(parts, i)
               /\ parts[i].raw # fmt(call.ctx, FMul(parts[i].val, call.ctx.scale))

\* Every product formatted by scale_path is a binary fraction or not
\* halfway between two outputs: the decimal model rounds as the f64 does.
PathRoundingExact ==
  call.fn = "scale_path" =>
    \A i \in 1..Len(parse_parts(call.d).parts) :
      Representable(FMul(parse_parts(call.d).parts[i].val, call.ctx.scale),
                    call.ctx.precision)

(***************************************************************************)
(* Numeric formatter: what the claims speak of                             *)
(***************************************************************************)
FmtDone == call.fn \in {"fmt", "fmt_num"} /\ ret.st = "ok"

\* the digits before the point (or all of them, without a point)
IntegerDigits(t) ==
  IF IndexFrom(t, {"."}, 1) = 0 THEN t ELSE Slice(t, 1, IndexFrom(t, {"."}, 1) - 1)

\* C4: for every finite v and every precision >= 0, precision 0 included,
\* the formatter returns a non-empty text that denotes the number v has when
\* rendered with `precision` fractional digits; only zeros of the fraction
\* and a dangling point are removed, never a digit of the integer part.
C4_FormatterKeepsValue ==
  FmtDone =>
    /\ ret.out # <<>>
    /\ SameNumber(parse_f64(ret.out), parse_f64(format_fixed(call.v, call.precision)))
    /\ IntegerDigits(ret.out) = IntegerDigits(format_fixed(call.v, call.precision))

\* for precision >= 1 the formatter keeps the value (the part of C4 that
\* holds)
C4_KeepsValueWithFraction ==
  FmtDone /\ call.precision >= 1 =>
    /\ ret.out # <<>>
    /\ SameNumber(parse_f64(ret.out), parse_f64(format_fixed(call.v, call.precision)))
    /\ IntegerDigits(ret.out) = IntegerDigits(format_fixed(call.v, call.precision))

(***************************************************************************)
(* Transform algebra: what the claims speak of                             *)
(***************************************************************************)
TransformDone == call.fn = "scale_transform_value" /\ ret # Pending

\* the list the input text denotes (<<>> when it is no transform list)
CallList ==
  IF parse_transform_list(call.input).st = "ok"
  THEN parse_transform_list(call.input).list
  ELSE <<>>

CallParses == parse_transform_list(call.input).st = "ok"

AllTranslate(list) == \A i \in 1..Len(list) : list[i].name = name_translate

SingleScale(list) == Len(list) = 1 /\ list[1].name = name_scale

\* the list goes through the matrix branch
Composed(list) == list # <<>> /\ ~AllTranslate(list) /\ ~SingleScale(list)

StartsWith(s, prefix) ==
  Len(s) >= Len(prefix) /\ SubSeq(s, 1, Len(prefix)) = prefix

\* the pieces of s between the occurrences of the character c
RECURSIVE SplitOn(_, _)
SplitOn(s, c) ==
  IF IndexFrom(s, {c}, 1) = 0 THEN <<s>>
  ELSE <<SubSeq(s, 1, IndexFrom(s, {c}, 1) - 1)>>
         \o SplitOn(SubSeq(s, IndexFrom(s, {c}, 1) + 1, Len(s)), c)

Scaled(v) == fmt_num(FMul(v, call.scale), call.precision)

\* C5: a non-empty list of translate ops only gives one translate per op, in
\* order, joined by single spaces, never a matrix; a 1-argument translate
\* gives translate(tx*scale), a 2-argument one translate(tx*scale,ty*scale)
\* (translate(10,20) at 0.5 gives translate(5,10)); an empty list gives the
\* input text back.
C5_TranslateListKept ==
  TransformDone /\ CallParses =>
    LET list == CallList
        pieces == SplitOn(ret.out, " ")
    IN /\ list = <<>> => ret = [st |-> "ok", out |-> call.input]
       /\ list # <<>> /\ AllTranslate(list) =>
            /\ ret.st = "ok"
            /\ Len(pieces) = Len(list)
            /\ \A i \in 1..Len(list) :
                 /\ StartsWith(pieces[i], name_translate \o <<"(">>)
                 /\ Len(list[i].params) = 1 =>
                      pieces[i] = name_translate \o <<"(">> \o Scaled(list[i].params[1])
                                    \o <<")">>
                 /\ Len(list[i].params) = 2 =>
                      pieces[i] = name_translate \o <<"(">> \o Scaled(list[i].params[1])
                                    \o <<",">> \o Scaled(list[i].params[2]) \o <<")">>
            /\ (call.input = Translate1020 /\ call.scale = Half => ret.out = Translate510)

\* two translates, one with one argument and one with two, rewritten
C5_Witness ==
  /\ TransformDone /\ CallParses /\ ret.st = "ok"
  /\ Len(CallList) = 2 /\ AllTranslate(CallList)
  /\ Len(CallList[1].params) = 1 /\ Len(CallList[2].params) = 2
  /\ ret.out # call.input
  /\ Len(SplitOn(ret.out, " ")) = 2

\* the image of the point pt under one op (angles are 0 within the bounds)
RefApply(t, pt) ==
  IF t.name = name_translate
  THEN <<FAdd(pt[1], get_or(t.params, 1, Zero)), FAdd(pt[2], get_or(t.params, 2, Zero))>>
  ELSE IF t.name = name_scale
  THEN <<FMul(get_or(t.params, 1, One), pt[1]),
         FMul(get_or(t.params, 2, get_or(t.params, 1, One)), pt[2])>>
  ELSE IF t.name = name_matrix
  THEN <<FAdd(FAdd(FMul(t.params[1], pt[1]), FMul(t.params[3], pt[2])), t.params[5]),
         FAdd(FAdd(FMul(t.params[2], pt[1]), FMul(t.params[4], pt[2])), t.params[6])>>
  ELSE pt

\* the image of pt under the whole list: the rightmost op acts first
RECURSIVE RefImage(_, _, _)
RefImage(list, i, pt) ==
  IF i > Len(list) THEN pt ELSE RefApply(list[i], RefImage(list, i + 1, pt))

FSub(a, b) == FAdd(a, FNeg(b))

\* the affine matrix of the list, read off the images of (0,0), (1,0), (0,1)
RefMatrix(list) ==
  LET o == RefImage(list, 1, <<Zero, Zero>>)
      u == RefImage(list, 1, <<One, Zero>>)
      v == RefImage(list, 1, <<Zero, One>>)
  IN <<FSub(u[1], o[1]), FSub(u[2], o[2]), FSub(v[1], o[1]), FSub(v[2], o[2]), o[1], o[2]>>

\* an op the composition is defined for
WellFormed(t) ==
  \/ t.name \in {name_translate, name_scale, name_rotate, name_skewX, name_skewY}
  \/ t.name = name_matrix /\ Len(t.params) = 6

\* no parameter of the op is float noise: the images of the three points
\* are then exact decimals of a few digits
NoNoise(t) == \A k \in 1..Len(t.params) : IsZero(t.params[k]) \/ ~BelowNoise(t.params[k])

\* v * scale with magnitudes below 1e-12 snapped to 0, formatted
Coefficient(v) ==
  LET w == FMul(v, call.scale)
  IN fmt_num(IF BelowNoise(w) \/ IsZero(w) THEN Zero ELSE w, call.precision)

\* C6: a list with a non-translate op that is not a single scale is composed
\* into one affine matrix, all six coefficients are multiplied by scale, and
\* exactly one matrix(a,b,c,d,e,f) is emitted (matrix(2,0,0,2,10,20) at 0.5
\* gives matrix(1,0,0,1,5,10); matrix(1,0,0,-1,0,216) at 0.25 gives
\* matrix(0.25,0,0,-0.25,0,54)).
C6_ComposedIntoOneMatrix ==
  TransformDone /\ CallParses =>
    LET list == CallList
        m == RefMatrix(list)
    IN Composed(list) =>
         /\ (\A i \in 1..Len(list) : WellFormed(list[i])) => ret.st = "ok"
         /\ (\A i \in 1..Len(list) : WellFormed(list[i]) /\ NoNoise(list[i])) =>
              ret.out = name_matrix \o <<"(">>
                          \o join([k \in 1..6 |-> Coefficient(m[k])], <<",">>)
                          \o <<")">>
         /\ ret.st = "ok" =>
              /\ StartsWith(ret.out, name_matrix \o <<"(">>)
              /\ Len(SplitOn(ret.out, ",")) = 6
              /\ Len(SplitOn(ret.out, "(")) = 2
         /\ (call.input = MatrixUniform /\ call.scale = Half => ret.out = MatrixUniformOut)
         /\ (call.input = MatrixMirror /\ call.scale = Quarter => ret.out = MatrixMirrorOut)
         /\ (call.input = MatrixNoise /\ call.scale = Half => ret.out = MatrixNoiseOut)

\* a translate followed by a scale or a matrix, which do not commute
C6_Witness ==
  /\ TransformDone /\ CallParses /\ ret.st = "ok"
  /\ Len(CallList) = 2
  /\ CallList[1].name = name_translate /\ Len(CallList[1].params) = 2
  /\ CallList[2].name = name_scale /\ Len(CallList[2].params) = 2
  /\ StartsWith(ret.out, name_matrix \o <<"(">>)

\* C7: a list of exactly one scale op gives a scale function, not a matrix:
\* scale(sx) gives scale(sx*scale), scale(sx,sy) gives
\* scale(sx*scale,sy*scale) (scale(2) at 0.5 gives scale(1)).
C7_SingleScaleKept ==
  TransformDone /\ CallParses /\ SingleScale(CallList) =>
    /\ ret.st = "ok"
    /\ StartsWith(ret.out, name_scale \o <<"(">>)
    /\ Len(CallList[1].params) = 1 =>
         ret.out = name_scale \o <<"(">> \o Scaled(CallList[1].params[1]) \o <<")">>
    /\ Len(CallList[1].params) = 2 =>
         ret.out = name_scale \o <<"(">> \o Scaled(CallList[1].params[1]) \o <<",">>
                     \o Scaled(CallList[1].params[2]) \o <<")">>
    /\ (call.input = Scale2 /\ call.scale = Half => ret.out = Scale1)

\* scale(sx,sy) with sx # sy, rewritten with both factors
C7_Witness ==
  /\ TransformDone /\ CallParses /\ ret.st = "ok"
  /\ SingleScale(CallList)
  /\ Len(CallList[1].params) = 2
  /\ ~SameNumber(CallList[1].params[1], CallList[1].params[2])
  /\ Len(SplitOn(ret.out, ",")) = 2
  /\ ret.out # call.input

\* C8: a list with a matrix op whose parameter count is not 6 (fewer or
\* more) is never rewritten: the call fails.
C8_MatrixNeedsSixParameters ==
  TransformDone /\ CallParses
    /\ (\E i \in 1..Len(CallList) :
          CallList[i].name = name_matrix /\ Len(CallList[i].params) # 6)
    => ret.st = "err"

\* a matrix op with fewer than 6 parameters fails the call (the part of C8
\* that holds)
C8_MatrixNeedsAtLeastSix ==
  TransformDone /\ CallParses
    /\ (\E i \in 1..Len(CallList) :
          CallList[i].name = name_matrix /\ Len(CallList[i].params) < 6)
    => ret.st = "err"

\* Every value the transform rewriter formats is a binary fraction or not
\* halfway between two outputs: the decimal model rounds as the f64 does.
TransformRoundingExact ==
  TransformDone /\ CallParses =>
    /\ \A i \in 1..Len(CallList) : \A k \in 1..Len(CallList[i].params) :
         \/ BelowNoise(CallList[i].params[k])
         \/ Representable(FMul(CallList[i].params[k], call.scale), call.precision)
    /\ transform_to_matrix(CallList).st = "ok" =>
         \A k \in 1..6 :
           \/ BelowNoise(transform_to_matrix(CallList).m[k])
           \/ Representable(FMul(transform_to_matrix(CallList).m[k], call.scale),
                            call.precision)

(***************************************************************************)
(* Style cascade: what the claims speak of                                 *)
(***************************************************************************)
CascadeDone == call.fn = "collect_matching_style_props" /\ ret.st = "ok"

CountChar(s, c) == Cardinality({i \in 1..Len(s) : s[i] = c})

\* how many rule blocks stand in the <style> elements before element e
RECURSIVE BlocksBefore(_, _)
BlocksBefore(styles, e) ==
  IF e <= 1 THEN 0
  ELSE BlocksBefore(styles, e - 1) + CountChar(styles[e - 1], "}")

\* 100 * (id present) + 10 * (class count) + 1 * (tag present)
ClaimedSimple(sel) ==
  IF sel.some
  THEN (IF sel.id # <<>> THEN 100 ELSE 0) + 10 * Len(sel.classes)
         + (IF sel.element # <<>> THEN 1 ELSE 0)
  ELSE 0

HasId(selector) ==
  selector.target.id # <<>> \/ (selector.ancestor.some /\ selector.ancestor.id # <<>>)

HasClass(selector) ==
  selector.target.classes # <<>>
    \/ (selector.ancestor.some /\ selector.ancestor.classes # <<>>)

\* every (key, value) a matching rule of the document declares, with the
\* rule's specificity and its position in the document
Declarations(styles, node) ==
  UNION {
    UNION {
      LET r == parse_css_rules(styles[e])[k]
      IN IF matches_selector(r.selector, node)
         THEN {[key |-> r.props[p][1], value |-> r.props[p][2],
                specificity |-> ClaimedSimple(r.selector.target)
                                  + ClaimedSimple(r.selector.ancestor),
                position |-> BlocksBefore(styles, e) + r.order,
                id |-> HasId(r.selector), class |-> HasClass(r.selector)] :
                 p \in 1..Len(r.props)}
         ELSE {} :
      k \in 1..Len(parse_css_rules(styles[e]))} :
    e \in 1..Len(styles)}

\* d is not below c under (specificity, position)
Outranks(d, c) ==
  d.specificity > c.specificity
    \/ (d.specificity = c.specificity /\ d.position >= c.position)

\* the value the returned list gives a key
ValueOf(props, key) == props[position(props, key, 1)][2]

\* C9: the value of every key is the one declared by the matching rule that
\* is greatest under (specificity, position in the document across all
\* <style> elements): of equal specificities the later rule wins, a higher
\* specificity wins wherever it is declared.
C9_CascadeOrder ==
  CascadeDone =>
    LET decls == Declarations(call.styles, call.node)
    IN /\ {ret.props[i][1] : i \in 1..Len(ret.props)} = {d.key : d \in decls}
       /\ \A d \in decls :
            (\A c \in decls : c.key = d.key => Outranks(d, c))
              => ValueOf(ret.props, d.key) = d.value

\* with at most one <style> element holding rules, C9 holds
C9_OneStyleElement ==
  CascadeDone /\ Cardinality({e \in 1..Len(call.styles) : call.styles[e] # <<>>}) <= 1 =>
    LET decls == Declarations(call.styles, call.node)
    IN /\ {ret.props[i][1] : i \in 1..Len(ret.props)} = {d.key : d \in decls}
       /\ \A d \in decls :
            (\A c \in decls : c.key = d.key => Outranks(d, c))
              => ValueOf(ret.props, d.key) = d.value

\* C10: id > class > tag whatever the order of declaration: when a matching
\* rule with an id sets a key, the key's value comes from a rule with an id,
\* however many classes or tags the other rules have; when none has an id
\* and one has a class, it comes from a rule with a class
\* (rect{width:20} .big{width:30} #solo{width:40} gives width 40).
C10_IdOverClassOverTag ==
  CascadeDone =>
    LET decls == Declarations(call.styles, call.node)
    IN /\ \A d \in decls :
            /\ d.id => \E c \in decls :
                         c.key = d.key /\ c.id /\ ValueOf(ret.props, d.key) = c.value
            /\ d.class /\ (\A c \in decls : c.key = d.key => ~c.id) =>
                 \E c \in decls :
                   c.key = d.key /\ c.class /\ ValueOf(ret.props, d.key) = c.value
       /\ (call.styles \in {<<SpecificityExample>>, <<SpecificityReversed>>} =>
             ret.props = <<<<KeyWidth, <<"4", "0">>>>>>)

\* when every matching selector without an id has fewer than ten classes, C10
\* holds
C10_FewClasses ==
  CascadeDone =>
    LET decls == Declarations(call.styles, call.node)
    IN (\A d \in decls : ~d.id => d.specificity < 100) =>
         \A d \in decls :
           /\ d.id => \E c \in decls :
                        c.key = d.key /\ c.id /\ ValueOf(ret.props, d.key) = c.value
           /\ d.class /\ (\A c \in decls : c.key = d.key => ~c.id) =>
                \E c \in decls :
                  c.key = d.key /\ c.class /\ ValueOf(ret.props, d.key) = c.value

(***************************************************************************)
(* Document scaler: what the claims speak of                               *)
(***************************************************************************)
PipelineDone == ret.st = "done"

\* the keys of a list of declarations
KeysOf(props) == {props[p][1] : p \in 1..Len(props)}

\* the value of the last declaration of key k
LastValue(props, k) ==
  props[CHOOSE p \in 1..Len(props) :
          props[p][1] = k /\ \A q \in (p + 1)..Len(props) : props[q][1] # k][2]

\* the numbers written in a text: its maximal runs of digits, '.' and '-'
RECURSIVE ClaimNumbers(_, _)
ClaimNumbers(t, i) ==
  IF i > Len(t) THEN <<>>
  ELSE IF ~(is_ascii_digit(t[i]) \/ t[i] \in {".", "-"}) THEN ClaimNumbers(t, i + 1)
  ELSE LET end == FirstOf({p \in i..(Len(t) + 1) :
                             p = Len(t) + 1 \/ ~(is_ascii_digit(t[p]) \/ t[p] \in {".", "-"})})
       IN <<parse_f64(SubSeq(t, i, end - 1))>> \o ClaimNumbers(t, end)

\* the numbers of out are those of in, each multiplied by factor
NumbersScaled(in, out, factor) ==
  LET a == ClaimNumbers(in, 1)
      b == ClaimNumbers(out, 1)
  IN /\ Len(a) = Len(b)
     /\ \A j \in 1..Len(a) : SameNumber(b[j], FMul(a[j], factor))

\* the declarations of the style attribute written for element i
EmittedStyle(i) == parse_style(attribute_or(ret.writer[i], KeyStyle, <<>>))

\* what the stylesheet rules give element i, and what its style attribute declares
SheetProps(i)  == collect_matching_style_props(ret.rules, NodeOf(call.elems, i))
InlineProps(i) == parse_style(attribute_or(call.elems[i], KeyStyle, <<>>))

\* the emitted value of key k derives from the declared value v
DerivedFrom(k, v, out) ==
  IF k \in style_length_keys THEN NumbersScaled(v, out, call.scales[ret.k]) ELSE out = v

RECURSIVE StrictAncestors(_, _)
StrictAncestors(elems, i) ==
  IF elems[i].parent = 0 THEN {}
  ELSE {elems[i].parent} \cup StrictAncestors(elems, elems[i].parent)

\* the rules of SheetCombinators: the key each sets, the tag or class its
\* ancestor selector names, and its combinator; the target is always rect
CombinatorCases ==
  {[key |-> <<"a">>, tag |-> TagG, class |-> <<>>, child |-> FALSE],
   [key |-> <<"b">>, tag |-> TagG, class |-> <<>>, child |-> TRUE],
   [key |-> <<"c">>, tag |-> TagSvg, class |-> <<>>, child |-> TRUE],
   [key |-> <<"e">>, tag |-> TagSvg, class |-> <<>>, child |-> FALSE],
   [key |-> <<"f">>, tag |-> TagRect, class |-> <<>>, child |-> FALSE],
   [key |-> <<"h">>, tag |-> <<>>, class |-> <<"c">>, child |-> TRUE],
   [key |-> <<"i">>, tag |-> TagRect, class |-> <<>>, child |-> TRUE]}

\* element e matches the ancestor selector of a case
AncestorMatches(case, e) ==
  /\ case.tag # <<>> => e.tag = case.tag
  /\ case.class # <<>> => attribute_or(e, KeyClass, <<>>) = case.class

\* the document carries the rules of SheetCombinators
HasCombinators ==
  \E e \in 1..Len(call.elems) :
    /\ call.elems[e].tag = KeyStyle
    /\ Len(call.elems[e].text) >= Len(SheetCombinators)
    /\ SubSeq(call.elems[e].text,
              Len(call.elems[e].text) - Len(SheetCombinators) + 1,
              Len(call.elems[e].text)) = SheetCombinators

\* C12: a rule with a descendant combinator applies to an element iff the
\* element matches the target and some strict ancestor element, at any
\* depth, matches the ancestor selector; a rule with a child combinator
\* applies iff the element matches the target and its parent element matches
\* the ancestor selector
C12_CombinatorMatching ==
  (PipelineDone /\ HasCombinators) =>
    \A i \in 1..Len(call.elems) : \A case \in CombinatorCases :
      (case.key \in KeysOf(EmittedStyle(i)))
        <=> /\ call.elems[i].tag = TagRect
            /\ IF case.child
               THEN /\ call.elems[i].parent # 0
                    /\ AncestorMatches(case, call.elems[call.elems[i].parent])
               ELSE \E a \in StrictAncestors(call.elems, i) :
                      AncestorMatches(case, call.elems[a])

\* a rect whose parent is <a> and whose grandparent is <g>: "g rect" applies
\* and "g > rect" does not; and a rect directly in <svg>, to which
\* "rect rect" does not apply
C12_Witness ==
  /\ PipelineDone
  /\ HasCombinators
  /\ \E i \in 1..Len(call.elems) :
       /\ call.elems[i].tag = TagRect
       /\ call.elems[i].parent # 0
       /\ call.elems[call.elems[i].parent].tag = <<"a">>
       /\ call.elems[call.elems[i].parent].parent # 0
       /\ call.elems[call.elems[call.elems[i].parent].parent].tag = TagG
       /\ <<"a">> \in KeysOf(EmittedStyle(i))
       /\ <<"b">> \notin KeysOf(EmittedStyle(i))
       /\ <<"f">> \notin KeysOf(EmittedStyle(i))

\* the value written for attribute name of element i ("" if none)
EmittedAttr(i, name) == attribute_or(ret.writer[i], name, <<>>)

\* the cascaded declarations of element i: the rules, then its inline style
CascadedProps(i) == rule_style_props(ret.rules, call.elems, i)

\* element i and its strict ancestors
SelfAndAncestors(i) == {i} \cup StrictAncestors(call.elems, i)

\* element i carries vector-effect=non-scaling-stroke, as attribute or as
\* cascaded style property
CarriesNonScalingStroke(i) ==
  \/ attribute_or(call.elems[i], KeyVectorEffect, <<>>) = NonScalingStroke
  \/ /\ KeyVectorEffect \in KeysOf(CascadedProps(i))
     /\ LastValue(CascadedProps(i), KeyVectorEffect) = NonScalingStroke

\* a transform text with a function other than translate
NonTranslateText(t) ==
  /\ t # <<>>
  /\ parse_transform_list(t).st = "ok"
  /\ has_non_translate(parse_transform_list(t).list)

\* element j itself has a non-translate transform, in its attribute or in
\* its cascaded style
OwnNonTranslate(j) ==
  \/ NonTranslateText(attribute_or(call.elems[j], KeyTransform, <<>>))
  \/ /\ KeyTransform \in KeysOf(CascadedProps(j))
     /\ NonTranslateText(LastValue(CascadedProps(j), KeyTransform))

TransformExempt(i) == \E j \in SelfAndAncestors(i) : OwnNonTranslate(j)

\* element i is, or lies in, a clipPath with clipPathUnits=objectBoundingBox
InBoundingBoxClip(i) ==
  \E j \in SelfAndAncestors(i) :
    /\ call.elems[j].tag = <<"c","l","i","p","P","a","t","h">>
    /\ attribute_or(call.elems[j], <<"c","l","i","p","P","a","t","h","U","n","i","t","s">>, <<>>) = ObjectBoundingBox

\* C13: an element that carries vector-effect=non-scaling-stroke, as
\* attribute or as cascaded style property, keeps its stroke-width (attribute
\* and style property) and its vector-effect when fix_stroke is off; with
\* fix_stroke the vector-effect attribute and property are not written and
\* the stroke-width is scaled as a length is (left alone only where every
\* length of the element is left alone)
C13_NonScalingStroke ==
  PipelineDone =>
    \A i \in 1..Len(call.elems) :
      CarriesNonScalingStroke(i) =>
        LET e     == call.elems[i]
            props == CascadedProps(i)
            out   == EmittedStyle(i)
            scale == call.scales[ret.k]
            lengthKept == TransformExempt(i) \/ InBoundingBoxClip(i)
        IN IF ~call.fix_stroke
           THEN /\ has_attribute(e, KeyStrokeWidth) =>
                     EmittedAttr(i, KeyStrokeWidth) = attribute_or(e, KeyStrokeWidth, <<>>)
                /\ KeyStrokeWidth \in KeysOf(props) =>
                     /\ KeyStrokeWidth \in KeysOf(out)
                     /\ LastValue(out, KeyStrokeWidth) = LastValue(props, KeyStrokeWidth)
                /\ has_attribute(e, KeyVectorEffect) =>
                     EmittedAttr(i, KeyVectorEffect) = NonScalingStroke
                /\ KeyVectorEffect \in KeysOf(props) =>
                     /\ KeyVectorEffect \in KeysOf(out)
                     /\ LastValue(out, KeyVectorEffect) = NonScalingStroke
           ELSE /\ ~has_attribute(ret.writer[i], KeyVectorEffect)
                /\ KeyVectorEffect \notin KeysOf(out)
                /\ has_attribute(e, KeyStrokeWidth) =>
                     IF lengthKept
                     THEN EmittedAttr(i, KeyStrokeWidth) = attribute_or(e, KeyStrokeWidth, <<>>)
                     ELSE NumbersScaled(attribute_or(e, KeyStrokeWidth, <<>>),
                                        EmittedAttr(i, KeyStrokeWidth), scale)
                /\ KeyStrokeWidth \in KeysOf(props) =>
                     /\ KeyStrokeWidth \in KeysOf(out)
                     /\ IF lengthKept
                        THEN LastValue(out, KeyStrokeWidth) = LastValue(props, KeyStrokeWidth)
                        ELSE NumbersScaled(LastValue(props, KeyStrokeWidth),
                                           LastValue(out, KeyStrokeWidth), scale)

\* without fix_stroke, a rect under plain groups whose inline style carries
\* the vector-effect keeps stroke-width:2 while its width 10 becomes 20
C13_Witness ==
  /\ PipelineDone
  /\ ~call.fix_stroke
  /\ SameNumber(call.scales[ret.k], Two)
  /\ \E i \in 1..Len(call.elems) :
       /\ ~has_attribute(call.elems[i], KeyVectorEffect)
       /\ CarriesNonScalingStroke(i)
       /\ ~TransformExempt(i) /\ ~InBoundingBoxClip(i)
       /\ KeyStrokeWidth \in KeysOf(EmittedStyle(i))
       /\ LastValue(EmittedStyle(i), KeyStrokeWidth) = <<"2">>
       /\ LastValue(EmittedStyle(i), KeyWidth) = <<"2","0">>

\* the attributes the exemptions speak of
GeometryAttributes == {KeyD} \cup length_attributes \cup number_list_attributes

\* C14: in a clipPath with clipPathUnits=objectBoundingBox, the path data,
\* the length attributes and the numeric-list attributes of the clipPath and
\* of every element below it, at any depth, are written with their input
\* values, whatever the scale
C14_BoundingBoxClipKept ==
  PipelineDone =>
    \A i \in 1..Len(call.elems) :
      InBoundingBoxClip(i) =>
        \A a \in 1..Len(call.elems[i].attrs) :
          call.elems[i].attrs[a][1] \in GeometryAttributes =>
            EmittedAttr(i, call.elems[i].attrs[a][1]) = call.elems[i].attrs[a][2]

\* a path two levels below such a clipPath, at scale 2, with its d and
\* stroke-width as in the input, while the viewBox of the root was scaled
C14_Witness ==
  /\ PipelineDone
  /\ SameNumber(call.scales[ret.k], Two)
  /\ EmittedAttr(1, KeyViewBox) = <<"0"," ","0"," ","4","8"," ","4","8">>
  /\ \E i \in 1..Len(call.elems) :
       /\ InBoundingBoxClip(i)
       /\ call.elems[i].parent # 0
       /\ call.elems[call.elems[i].parent].tag = TagG
       /\ attribute_or(call.elems[i], KeyD, <<>>) = <<"M","1","0"," ","2","0"," ","L","1",".","5"," ","3">>
       /\ EmittedAttr(i, KeyD) = <<"M","1","0"," ","2","0"," ","L","1",".","5"," ","3">>
       /\ EmittedAttr(i, KeyStrokeWidth) = <<"2">>

\* the style properties the exemptions speak of
GeometryProperties ==
  style_length_keys \cup {KeyDasharray, KeyBaseFrequency} \cup style_number_lists

\* out is the value v of key k, scaled: every number times the scale, and
\* for baseFrequency divided by it
ScaledValue(k, v, out, scale) ==
  IF k = KeyBaseFrequency THEN NumbersScaled(out, v, scale) ELSE NumbersScaled(v, out, scale)

MalformedNumber(t) ==
  /\ t # <<>>
  /\ \A p \in 1..Len(t) : is_num_char(t[p])
  /\ ~from_str(t).ok

\* the value holds a malformed numeric literal
HoldsMalformedNumber(v) ==
  \E w \in 1..Len(split_whitespace(v)) : MalformedNumber(split_whitespace(v)[w])

\* the attributes and properties whose numbers are scaled
ScaledAttributes ==
  length_attributes \cup number_list_attributes \cup {KeyBaseFrequency, KeyViewBox}

\* element i has a malformed numeric literal in a scaled category
MalformedIn(i) ==
  \/ \E a \in 1..Len(call.elems[i].attrs) :
       /\ call.elems[i].attrs[a][1] \in ScaledAttributes
       /\ HoldsMalformedNumber(call.elems[i].attrs[a][2])
  \/ \E p \in 1..Len(CascadedProps(i)) :
       /\ CascadedProps(i)[p][1] \in GeometryProperties
       /\ HoldsMalformedNumber(CascadedProps(i)[p][2])

\* C16: a document with a malformed numeric literal in a scaled category
\* (length attribute or property, numeric list, baseFrequency, viewBox) on
\* an element without exemption is never converted: no size of it is
\* written out (no element of these documents is exempt)
C16_MalformedNumberFails ==
  ret.st \in {"written", "done"} =>
    \A i \in 1..Len(call.elems) : ~MalformedIn(i)

\* the malformed lengths and viewBox numbers do end the conversion
C16_MalformedLengthFails ==
  ret.st \in {"written", "done"} =>
    \A i \in 1..Len(call.elems) :
      /\ \A a \in 1..Len(call.elems[i].attrs) :
           call.elems[i].attrs[a][1] \in length_attributes \cup {KeyViewBox} =>
             ~HoldsMalformedNumber(call.elems[i].attrs[a][2])
      /\ \A p \in 1..Len(CascadedProps(i)) :
           CascadedProps(i)[p][1] \in style_length_keys =>
             ~HoldsMalformedNumber(CascadedProps(i)[p][2])

\* C17: once the scaling of a value of some element has failed, the
\* pipeline has ended with that error and has written no document, however
\* many elements the writer holds; and a document that is written holds
\* every element of the input
C17_NoPartialOutput ==
  /\ ret # Pending /\ ret.chain # <<>> => ret.st = "err" /\ ret.files = <<>>
  /\ ret # Pending =>
       \A f \in 1..Len(ret.files) : Len(ret.files[f].doc) = Len(call.elems)

\* a run for two sizes that failed at the fifth element: the writer holds
\* the first four and the id of the fifth, and nothing was written
C17_Witness ==
  /\ ret.st = "err"
  /\ Len(call.scales) = 2
  /\ ret.pos = 5
  /\ Len(ret.writer) = 5
  /\ ret.writer[5].attrs = <<<<KeyId, <<"a">>>>>>
  /\ ret.files = <<>>

\* C18: the error that ends the pipeline names the element whose value
\* failed: its tag, its id if it has one, and the key or the raw value
C18_ErrorNamesElement ==
  ret.st = "err" =>
    LET e == call.elems[ret.pos]
    IN /\ \E m \in 1..Len(ret.chain) : ret.chain[m].tag = e.tag
       /\ has_attribute(e, KeyId) =>
            \E m \in 1..Len(ret.chain) : ret.chain[m].id = attribute_or(e, KeyId, <<>>)
       /\ \E m \in 1..Len(ret.chain) :
            ret.chain[m].key # <<>> \/ ret.chain[m].value # <<>>

\* the errors of the attributes do name their element
C18_AttributeErrorNamesElement ==
  (ret.st = "err" /\ ret.chain[1].format \notin
                       {"invalid {} in style: {}", "transform scale failed in style: {}"}) =>
    LET e == call.elems[ret.pos]
    IN /\ ret.chain[1].tag = e.tag
       /\ ret.chain[1].id = attribute_or(e, KeyId, <<>>)

\* the numbers written in a text, exponents included: its maximal runs of
\* number characters that hold a digit
RECURSIVE ClaimNumbersExp(_, _)
ClaimNumbersExp(t, i) ==
  IF i > Len(t) THEN <<>>
  ELSE IF ~is_num_char(t[i]) THEN ClaimNumbersExp(t, i + 1)
  ELSE LET end == FirstOf({p \in i..(Len(t) + 1) : p = Len(t) + 1 \/ ~is_num_char(t[p])})
           run == SubSeq(t, i, end - 1)
       IN (IF \E p \in 1..Len(run) : is_ascii_digit(run[p])
           THEN <<from_str(run).val>> ELSE <<>>)
            \o ClaimNumbersExp(t, end)

\* out is in with some characters "0" and "." removed
RECURSIVE RemovedOnlyZeros(_, _, _, _)
RemovedOnlyZeros(in, i, out, j) ==
  IF i > Len(in) THEN j > Len(out)
  ELSE \/ j <= Len(out) /\ in[i] = out[j] /\ RemovedOnlyZeros(in, i + 1, out, j + 1)
       \/ in[i] \in {"0", "."} /\ RemovedOnlyZeros(in, i + 1, out, j)

\* the attributes and properties whose numbers are scaled, transforms included
NumericAttributes ==
  GeometryAttributes \cup {KeyBaseFrequency, KeyViewBox, KeyTransform}

RoundedToFour(a, b) ==
  \/ SameNumber(a, b)
  \/ /\ a.k = "fin" /\ b.k = "fin"
     /\ a.x < -4
     /\ \E q \in {a.m \div Pow10(-4 - a.x), a.m \div Pow10(-4 - a.x) + 1} :
          /\ SameNumber(b, Fin(a.neg, q, -4))
          /\ 2 * Abs(q * Pow10(-4 - a.x) - a.m) <= Pow10(-4 - a.x)

\* the numbers of out are those of in, each rounded to four decimals
NumbersRounded(in, out) ==
  /\ Len(ClaimNumbersExp(in, 1)) = Len(ClaimNumbersExp(out, 1))
  /\ \A n \in 1..Len(ClaimNumbersExp(in, 1)) :
       RoundedToFour(ClaimNumbersExp(in, 1)[n], ClaimNumbersExp(out, 1)[n])

\* a transform list whose functions are kept: translations only, or one scale
KeepsFunctions(t) ==
  LET list == parse_transform_list(t).list
  IN \/ \A f \in 1..Len(list) : list[f].name = name_translate
     \/ Len(list) = 1 /\ list[1].name = name_scale

ScaledUnits == {<<>>, <<"p","x">>, <<"p","t">>, <<"p","c">>, <<"m","m">>, <<"c","m">>, <<"i","n">>}

\* the length of the number a text starts with: of its longest prefix that is
\* a decimal number (0 if it starts with none)
LeadingNumber(t) ==
  CHOOSE n \in 0..Len(t) :
    /\ n = 0 \/ recognize_float(SubSeq(t, 1, n), 1) = POk(n + 1)
    /\ \A q \in (n + 1)..Len(t) : recognize_float(SubSeq(t, 1, q), 1) # POk(q + 1)

\* the length of the longest prefix of t made of the characters numbers
\* are written with
NumberRun(t) ==
  CHOOSE n \in 0..Len(t) :
    /\ \A p \in 1..n : t[p] \in {"0","1","2","3","4","5","6","7","8","9","-","+",".","e","E"}
    /\ n < Len(t) => t[n + 1] \notin {"0","1","2","3","4","5","6","7","8","9","-","+",".","e","E"}

\* the number of t[1..n] times the scale of the run, then the unit
ScaledLength(t, n) ==
  fmt(CtxOf(call, ret.k), FMul(parse_f64(SubSeq(t, 1, n)), call.scales[ret.k]))
    \o trim(SubSeq(t, n + 1, Len(t)))

\* the width the document gives its rect, and the width written for it
WidthIn  == attribute_or(call.elems[2], KeyWidth, <<>>)
WidthOut == EmittedAttr(2, KeyWidth)

\* the run over the document has ended, with a file or with an error
PipelineEnded == ret # Pending /\ ret.st \in {"done", "err"}

\* C20 as stated: a length that starts with a number followed by one of the
\* units "", px, pt, pc, mm, cm, in is written as the number times the scale
\* and the unit; one with % or another unit, or that starts with no number,
\* is written as it was; and no length makes the run fail
C20_LengthUnits ==
  PipelineEnded =>
    LET t == trim(WidthIn)
        n == LeadingNumber(t)
    IN /\ ret.st = "done"
       /\ WidthOut = IF n > 0 /\ trim(SubSeq(t, n + 1, Len(t))) \in ScaledUnits
                     THEN ScaledLength(t, n)
                     ELSE WidthIn

\* C20, amended: the trimmed length is split after its longest prefix of
\* number characters; if there is none, or the rest is % or a unit other
\* than "", px, pt, pc, mm, cm, in, the length is written as it was and
\* the run does not fail; otherwise the prefix, if it is a number, is
\* written times the scale with the unit directly behind it, and if it is
\* not a number the run fails with "invalid length"
C20_LengthSplitAtNumberCharacters ==
  PipelineEnded =>
    LET t == trim(WidthIn)
        n == NumberRun(t)
    IN IF n = 0 \/ trim(SubSeq(t, n + 1, Len(t))) \notin ScaledUnits
       THEN ret.st = "done" /\ WidthOut = WidthIn
       ELSE IF recognize_float(SubSeq(t, 1, n), 1) = POk(n + 1)
       THEN ret.st = "done" /\ WidthOut = ScaledLength(t, n)
       ELSE /\ ret.st = "err"
            /\ \E c \in 1..Len(ret.chain) :
                 ret.chain[c].format = "invalid length: {}" /\ ret.chain[c].value = WidthIn

\* a width of 1.5mm written as 3mm
C20_Witness ==
  /\ PipelineDone
  /\ WidthIn = <<"1",".","5","m","m">>
  /\ WidthOut = <<"3","m","m">>

\* the characters of a text that belong to no number
SeparatorsOf(t) == SelectSeq(t, LAMBDA c : ~(is_ascii_digit(c) \/ c \in {".", "-"}))

\* element i has no exemption: no non-translate transform and no
\* objectBoundingBox units on it or above it
Unexempt(i) ==
  /\ ~TransformExempt(i)
  /\ \A j \in SelfAndAncestors(i) :
       ~skip_scale_due_to_units(call.elems[j])
         /\ ~skip_children_due_to_content_units(call.elems[j])

\* C21: on an element without exemption, every number of a baseFrequency
\* attribute is written divided by the scale (the written number times the
\* scale is the input number), and the separators between the numbers are
\* kept; "0.05 0.1" at scale 0.5 is written "0.1 0.2"
C21_BaseFrequencyInverse ==
  PipelineDone =>
    \A i \in 1..Len(call.elems) :
      (Unexempt(i) /\ has_attribute(call.elems[i], KeyBaseFrequency)) =>
        LET in  == attribute_or(call.elems[i], KeyBaseFrequency, <<>>)
            out == EmittedAttr(i, KeyBaseFrequency)
        IN /\ NumbersScaled(out, in, call.scales[ret.k])
           /\ SeparatorsOf(out) = SeparatorsOf(in)
           /\ (in = <<"0",".","0","5"," ","0",".","1">> /\ SameNumber(call.scales[ret.k], Half)) => out = <<"0",".","1"," ","0",".","2">>

\* baseFrequency="0.05,0.1" under plain groups at scale 2, written "0.025,0.05"
C21_Witness ==
  /\ PipelineDone
  /\ SameNumber(call.scales[ret.k], Two)
  /\ \E i \in 1..Len(call.elems) :
       /\ Unexempt(i)
       /\ attribute_or(call.elems[i], KeyBaseFrequency, <<>>) = <<"0",".","0","5",",","0",".","1">>
       /\ EmittedAttr(i, KeyBaseFrequency) = <<"0",".","0","2","5",",","0",".","0","5">>

\* transform_to_matrix has returned
MatrixDone == call.fn = "transform_to_matrix" /\ ret # Pending

\* an op of the kinds C22 gives the reference product for
ProductOp(t) ==
  \/ t.name \in {name_translate, name_scale}
  \/ t.name = name_matrix /\ Len(t.params) >= 6

\* the image of the point pt under the matrix m = (a,b,c,d,e,f):
\* x' = a*x + c*y + e, y' = b*x + d*y + f
MatrixImage(m, pt) ==
  <<FAdd(FAdd(FMul(m[1], pt[1]), FMul(m[3], pt[2])), m[5]),
    FAdd(FAdd(FMul(m[2], pt[1]), FMul(m[4], pt[2])), m[6])>>

\* C22: for a list of translate, scale and matrix ops with integer
\* parameters, transform_to_matrix returns the product M1 * ... * Mn from
\* the identity: its matrix maps a point as the ops applied one after the
\* other do, the last-listed first, with sy = sx for scale(sx) and ty = 0
\* for translate(tx), and its six coefficients are exactly those of the
\* reference product; the empty list gives the identity
C22_LeftToRightProduct ==
  (MatrixDone /\ \A i \in 1..Len(call.list) : ProductOp(call.list[i])) =>
    /\ ret.st = "ok"
    /\ \A k \in 1..6 : SameNumber(ret.m[k], RefMatrix(call.list)[k])
    /\ \A pt \in {<<Zero, Zero>>, <<One, Zero>>, <<Zero, One>>, <<Whole(2), Whole(-3)>>} :
         /\ SameNumber(MatrixImage(ret.m, pt)[1], RefImage(call.list, 1, pt)[1])
         /\ SameNumber(MatrixImage(ret.m, pt)[2], RefImage(call.list, 1, pt)[2])
    /\ call.list = <<>> => ret.m = Identity

\* translate(10) scale(2): (1,0) is scaled to (2,0) first and then moved to
\* (12,0), and the matrix is (2,0,0,2,10,0)
C22_Witness ==
  /\ MatrixDone
  /\ call.list = <<Transform(name_translate, <<Whole(10)>>), Transform(name_scale, <<Whole(2)>>)>>
  /\ ret.st = "ok"
  /\ ret.m = <<Whole(2), Zero, Zero, Whole(2), Whole(10), Zero>>
  /\ SameNumber(MatrixImage(ret.m, <<One, Zero>>)[1], Whole(12))

\* the value of attribute name of element j ("" if it has none)
AttrOf(j, name) == attribute_or(call.elems[j], name, <<>>)

\* element j is exempt through its own units attribute: a filter, pattern,
\* mask or gradient in objectBoundingBox units
OwnUnitsExempt(j) ==
  \/ call.elems[j].tag = <<"f","i","l","t","e","r">> /\ AttrOf(j, <<"f","i","l","t","e","r","U","n","i","t","s">>) = ObjectBoundingBox
  \/ call.elems[j].tag = <<"p","a","t","t","e","r","n">> /\ AttrOf(j, <<"p","a","t","t","e","r","n","U","n","i","t","s">>) = ObjectBoundingBox
  \/ call.elems[j].tag = <<"m","a","s","k">> /\ AttrOf(j, <<"m","a","s","k","U","n","i","t","s">>) = ObjectBoundingBox
  \/ /\ call.elems[j].tag \in {<<"l","i","n","e","a","r","G","r","a","d","i","e","n","t">>, <<"r","a","d","i","a","l","G","r","a","d","i","e","n","t">>}
     /\ AttrOf(j, <<"g","r","a","d","i","e","n","t","U","n","i","t","s">>) = ObjectBoundingBox

\* element j exempts what it holds: its content units are objectBoundingBox
ContentUnitsExempt(j) ==
  \/ call.elems[j].tag = <<"p","a","t","t","e","r","n">> /\ AttrOf(j, <<"p","a","t","t","e","r","n","C","o","n","t","e","n","t","U","n","i","t","s">>) = ObjectBoundingBox
  \/ call.elems[j].tag = <<"f","i","l","t","e","r">> /\ AttrOf(j, <<"p","r","i","m","i","t","i","v","e","U","n","i","t","s">>) = ObjectBoundingBox

\* a marker in strokeWidth units, which are its default
StrokeWidthMarker(j) ==
  /\ call.elems[j].tag = <<"m","a","r","k","e","r">>
  /\ AttrOf(j, <<"m","a","r","k","e","r","U","n","i","t","s">>) \in {<<>>, StrokeWidthUnits}

\* element j is a clipPath in objectBoundingBox units
BoundingBoxClip(j) ==
  call.elems[j].tag = <<"c","l","i","p","P","a","t","h">> /\ AttrOf(j, <<"c","l","i","p","P","a","t","h","U","n","i","t","s">>) = ObjectBoundingBox

\* element j has an exemption of some kind of its own
OwnExemption(j) ==
  \/ OwnUnitsExempt(j) \/ ContentUnitsExempt(j) \/ StrokeWidthMarker(j)
  \/ BoundingBoxClip(j) \/ OwnNonTranslate(j)

\* every geometry attribute of element i is written as in the input
GeometryKept(i) ==
  \A a \in 1..Len(call.elems[i].attrs) :
    call.elems[i].attrs[a][1] \in GeometryAttributes =>
      EmittedAttr(i, call.elems[i].attrs[a][1]) = call.elems[i].attrs[a][2]

\* every geometry attribute of element i is written times the scale
GeometryScaled(i) ==
  \A a \in 1..Len(call.elems[i].attrs) :
    call.elems[i].attrs[a][1] \in GeometryAttributes =>
      NumbersScaled(call.elems[i].attrs[a][2], EmittedAttr(i, call.elems[i].attrs[a][1]),
                    call.scales[ret.k])

\* C23: an element exempt only through its own filterUnits, patternUnits,
\* maskUnits or gradientUnits = objectBoundingBox (nothing above it is
\* exempt, its content units are not objectBoundingBox) keeps its own
\* geometry, and the geometry of its children, which have no exemption of
\* their own, is scaled
C23_OwnUnitsNotInherited ==
  PipelineDone =>
    \A i \in 1..Len(call.elems) :
      (/\ OwnUnitsExempt(i)
       /\ ~ContentUnitsExempt(i)
       /\ \A j \in StrictAncestors(call.elems, i) : ~OwnExemption(j)) =>
        /\ GeometryKept(i)
        /\ \A c \in 1..Len(call.elems) :
             (call.elems[c].parent = i /\ ~OwnExemption(c)) => GeometryScaled(c)

\* the filter's half of C23: a filter exempt only through
\* filterUnits=objectBoundingBox keeps its own geometry, and the geometry of
\* its children is scaled
C23_FilterUnitsNotInherited ==
  PipelineDone =>
    \A i \in 1..Len(call.elems) :
      (/\ call.elems[i].tag = <<"f","i","l","t","e","r">>
       /\ OwnUnitsExempt(i)
       /\ ~ContentUnitsExempt(i)
       /\ \A j \in StrictAncestors(call.elems, i) : ~OwnExemption(j)) =>
        /\ GeometryKept(i)
        /\ \A c \in 1..Len(call.elems) :
             (call.elems[c].parent = i /\ ~OwnExemption(c)) => GeometryScaled(c)

\* the region attributes of a pattern or filter
RegionAttributes == {<<"x">>, <<"y">>, KeyWidth, KeyHeight}

\* C24: in a pattern with patternContentUnits=objectBoundingBox or a filter
\* with primitiveUnits=objectBoundingBox, the geometry of every descendant,
\* at any depth and also below a descendant that declares userSpaceOnUse
\* units, is written as in the input; the element's own x, y, width and
\* height are scaled when its own units attribute is absent or
\* userSpaceOnUse (and nothing above it is exempt)
C24_ContentUnitsExemptSubtree ==
  PipelineDone =>
    \A i \in 1..Len(call.elems) :
      ContentUnitsExempt(i) =>
        /\ \A c \in 1..Len(call.elems) :
             i \in StrictAncestors(call.elems, c) => GeometryKept(c)
        /\ (/\ ~OwnUnitsExempt(i)
            /\ \A j \in StrictAncestors(call.elems, i) : ~OwnExemption(j)) =>
             \A a \in 1..Len(call.elems[i].attrs) :
               call.elems[i].attrs[a][1] \in RegionAttributes =>
                 NumbersScaled(call.elems[i].attrs[a][2],
                               EmittedAttr(i, call.elems[i].attrs[a][1]), call.scales[ret.k])

\* at scale 2, a filter with primitiveUnits=objectBoundingBox and no
\* filterUnits has its width 10 written as 20, while the feOffset below a
\* filter in user space units inside it keeps dx=2
C24_Witness ==
  /\ PipelineDone
  /\ SameNumber(call.scales[ret.k], Two)
  /\ Len(call.elems) = 4
  /\ call.elems[2].tag = <<"f","i","l","t","e","r">>
  /\ ContentUnitsExempt(2) /\ ~has_attribute(call.elems[2], <<"f","i","l","t","e","r","U","n","i","t","s">>)
  /\ EmittedAttr(2, KeyWidth) = <<"2","0">>
  /\ AttrOf(3, <<"p","r","i","m","i","t","i","v","e","U","n","i","t","s">>) = UserSpaceOnUse
  /\ call.elems[4].parent = 3
  /\ AttrOf(4, <<"d","x">>) = <<"2">>
  /\ EmittedAttr(4, <<"d","x">>) = <<"2">>

\* the geometry attributes of a marker
MarkerAttributes == {<<"m","a","r","k","e","r","W","i","d","t","h">>, <<"m","a","r","k","e","r","H","e","i","g","h","t">>, <<"r","e","f","X">>, <<"r","e","f","Y">>}

\* C25: a marker whose markerUnits is absent or strokeWidth has its
\* markerWidth, markerHeight, refX, refY, and the geometry of everything
\* below it, written as in the input; a marker with
\* markerUnits=userSpaceOnUse (nothing above it exempt) has these four
\* scaled, and the geometry of what is below it and has no exemption of
\* its own on the way is scaled too
C25_MarkerUnits ==
  PipelineDone =>
    \A i \in 1..Len(call.elems) :
      call.elems[i].tag = <<"m","a","r","k","e","r">> =>
        IF StrokeWidthMarker(i)
        THEN /\ \A a \in 1..Len(call.elems[i].attrs) :
                  call.elems[i].attrs[a][1] \in MarkerAttributes =>
                    EmittedAttr(i, call.elems[i].attrs[a][1]) = call.elems[i].attrs[a][2]
             /\ \A c \in 1..Len(call.elems) :
                  i \in StrictAncestors(call.elems, c) => GeometryKept(c)
        ELSE (/\ AttrOf(i, <<"m","a","r","k","e","r","U","n","i","t","s">>) = UserSpaceOnUse
              /\ \A j \in StrictAncestors(call.elems, i) : ~OwnExemption(j)) =>
               /\ \A a \in 1..Len(call.elems[i].attrs) :
                    call.elems[i].attrs[a][1] \in MarkerAttributes =>
                      NumbersScaled(call.elems[i].attrs[a][2],
                                    EmittedAttr(i, call.elems[i].attrs[a][1]),
                                    call.scales[ret.k])
               /\ \A c \in 1..Len(call.elems) :
                    (/\ i \in StrictAncestors(call.elems, c)
                     /\ \A j \in SelfAndAncestors(c) : j # i => ~OwnExemption(j)) =>
                      GeometryScaled(c)

\* at scale 2, a marker without markerUnits keeps markerWidth=4 and refX=2
\* and the path below a group in it keeps its d
C25_Witness ==
  /\ PipelineDone
  /\ SameNumber(call.scales[ret.k], Two)
  /\ Len(call.elems) = 4
  /\ call.elems[2].tag = <<"m","a","r","k","e","r">>
  /\ ~has_attribute(call.elems[2], <<"m","a","r","k","e","r","U","n","i","t","s">>)
  /\ EmittedAttr(2, <<"m","a","r","k","e","r","W","i","d","t","h">>) = <<"4">>
  /\ EmittedAttr(2, <<"r","e","f","X">>) = <<"2">>
  /\ call.elems[3].tag = TagG
  /\ call.elems[4].parent = 3
  /\ AttrOf(4, KeyD) = <<"M","1"," ","2","L","3"," ","4">>
  /\ EmittedAttr(4, KeyD) = <<"M","1"," ","2","L","3"," ","4">>

\* element j declares, in its style attribute and nowhere else, exactly the
\* key k with the value that element i has as attribute k; the two have
\* the same parent, hence the same exemption state above them
SameKeyBothWays(i, j, k) ==
  /\ i # j
  /\ call.elems[i].parent = call.elems[j].parent
  /\ has_attribute(call.elems[i], k)
  /\ call.elems[j].attrs = <<<<KeyStyle, k \o <<":">> \o AttrOf(i, k)>>>>
  /\ CascadedProps(j) = <<<<k, AttrOf(i, k)>>>>

\* the keys of the inputs that are in the same category on both paths
SharedCategoryKeys ==
  style_length_keys \cup style_number_lists
    \cup {KeyDasharray, KeyBaseFrequency, KeyTransform, <<"f","i","l","l">>}

\* C26: a key with a value is written with the same scaled value whether
\* it is an attribute or a style property of an element, in every
\* exemption state; this includes fx, fy, scale, d, viewBox,
\* gradientTransform and patternTransform
C26_SameCategoryBothWays ==
  PipelineDone =>
    \A i, j \in 1..Len(call.elems) :
      \A k \in {call.elems[i].attrs[a][1] : a \in 1..Len(call.elems[i].attrs)} \ {KeyStyle} :
        SameKeyBothWays(i, j, k) =>
          /\ k \in KeysOf(EmittedStyle(j))
          /\ LastValue(EmittedStyle(j), k) = EmittedAttr(i, k)

\* the part of C26 that holds: the keys scale_style_value knows are written
\* with the same value as attribute and as style property
C26_SharedKeysAgree ==
  PipelineDone =>
    \A i, j \in 1..Len(call.elems) :
      \A k \in SharedCategoryKeys :
        SameKeyBothWays(i, j, k) =>
          /\ k \in KeysOf(EmittedStyle(j))
          /\ LastValue(EmittedStyle(j), k) = EmittedAttr(i, k)

\* the attributes of an element other than style, in their order
OtherThanStyle(attrs) == SelectSeq(attrs, LAMBDA a : a[1] # KeyStyle)

\* the names of the attributes, in their order
NamesOf(attrs) == [a \in 1..Len(attrs) |-> attrs[a][1]]

\* C27: the attributes written for an element are in the order of the
\* attributes of the input element, the style attribute included when the
\* element has one
C27_AttributeOrderKept ==
  PipelineDone =>
    \A i \in 1..Len(call.elems) : NamesOf(ret.writer[i].attrs) = NamesOf(call.elems[i].attrs)

\* the part of C27 that holds: the attributes other than style are written
\* in their input order
C27_OtherAttributesInOrder ==
  PipelineDone =>
    \A i \in 1..Len(call.elems) :
      NamesOf(OtherThanStyle(ret.writer[i].attrs))
        = NamesOf(OtherThanStyle(call.elems[i].attrs))

\* the kinds of the tokens of a path text, in order
KindsOf(d) == [i \in 1..Len(parse_parts(d).parts) |-> parse_parts(d).parts[i].kind]

\* the whole text is a sequence of tokens
Tokenizes(d) == parse_parts(d).r # "failure" /\ parse_parts(d).rest > Len(d)

\* C28: the output of scale_path tokenizes, and to the kinds of tokens of
\* the input in the same order (so with as many numbers): numbers packed
\* without a separator neither merge nor split, for positive and negative
\* scales (stated at precisions above 0: at precision 0 the formatter of C4
\* writes 0 as the empty text, which removes tokens by itself)
C28_TokenStructureKept ==
  (PathDone /\ call.ctx.precision > 0) =>
    Tokenizes(ret.out) /\ KindsOf(ret.out) = KindsOf(call.d)

\* no number of the path text is directly followed by another number
NumbersApart(d) ==
  \A i \in 1..(Len(parse_parts(d).parts) - 1) :
    ~(parse_parts(d).parts[i].kind = "Num" /\ parse_parts(d).parts[i + 1].kind = "Num")

\* the part of C28 that holds: at a precision above 0, a path whose numbers
\* are all kept apart by a separator or a command letter keeps its token
\* structure
C28_SeparatedNumbersKeepStructure ==
  (PathDone /\ NumbersApart(call.d) /\ call.ctx.precision > 0) =>
    Tokenizes(ret.out) /\ KindsOf(ret.out) = KindsOf(call.d)

\* the matrix of a transform text (the identity for no transform)
MatrixOfText(t) ==
  IF t = <<>> THEN Identity ELSE transform_to_matrix(parse_transform_list(t).list).m

\* the composition, outermost first, of the transform attributes of the
\* elements from the root down to element i, as the document doc (the input
\* or the written one, which have the same elements) gives them
RECURSIVE PathMatrix(_, _)
PathMatrix(doc, i) ==
  IF i = 0 THEN Identity
  ELSE mat_mul(PathMatrix(doc, call.elems[i].parent),
               MatrixOfText(attribute_or(doc[i], KeyTransform, <<>>)))

\* the point (x, y) of an element
PointOf(e) == <<parse_f64(attribute_or(e, <<"x">>, <<"0">>)), parse_f64(attribute_or(e, <<"y">>, <<"0">>))>>

\* where the input document puts the point of element i, times the scale
ScaledPlace(i) ==
  LET p == MatrixImage(PathMatrix(call.elems, i), PointOf(call.elems[i]))
  IN <<FMul(p[1], call.scales[ret.k]), FMul(p[2], call.scales[ret.k])>>

\* where the written document puts the point of element i
EmittedPlace(i) == MatrixImage(PathMatrix(ret.writer, i), PointOf(ret.writer[i]))

SamePlace(p, q) == SameNumber(p[1], q[1]) /\ SameNumber(p[2], q[2])

Positioned(i) == position(call.elems[i].attrs, <<"x">>, 1) # 0

\* C29: the scale is applied exactly once along every root-to-element path:
\* the emitted transforms of an element and its ancestors, composed outermost
\* first and applied to its emitted geometry, put it where the input
\* document's transforms put its input geometry, times the scale
C29_ScaleAppliedOnce ==
  PipelineDone =>
    \A i \in 1..Len(call.elems) :
      Positioned(i) => SamePlace(EmittedPlace(i), ScaledPlace(i))

HasTransform(j) == attribute_or(call.elems[j], KeyTransform, <<>>) # <<>>

\* no element with a transform lies strictly below an element of the path to
\* i that has a non-translate transform
NothingBelowNonTranslate(i) ==
  \A j \in SelfAndAncestors(i) :
    HasTransform(j) =>
      \A a \in StrictAncestors(call.elems, j) :
        ~NonTranslateText(attribute_or(call.elems[a], KeyTransform, <<>>))

\* what the code keeps of C29: the scale is applied once wherever no
\* transform lies below a non-translate transform
C29_OnceAboveNonTranslate ==
  PipelineDone =>
    \A i \in 1..Len(call.elems) :
      (Positioned(i) /\ NothingBelowNonTranslate(i)) =>
        SamePlace(EmittedPlace(i), ScaledPlace(i))

\* scale_path has ended, one way or another
PathEnded == call.fn = "scale_path" /\ ret # Pending

\* the error value of scale_path carries the offset, the snippet and the
\* reason
CarriesError(r) ==
  /\ r.st = "err"
  /\ r.pos \in 0..byte_len(call.d)
  /\ r.snippet \in Seq({call.d[i] : i \in 1..Len(call.d)})
  /\ r.reason \in {"unexpected end of input", "invalid command", "invalid number",
                   "invalid separator", "unexpected token"}

\* C30: scale_path is total: for every input, also one with multi-byte
\* characters within 10 bytes of the offending token, it returns the
\* rewritten text or an error value carrying offset, snippet and reason;
\* building the snippet from the bytes [pos-10, pos+10) never aborts
C30_ScalePathTotal ==
  PathEnded => ret.st = "ok" \/ CarriesError(ret)

IsAscii(d) == \A i \in 1..Len(d) : len_utf8(d[i]) = 1

\* what the code keeps of C30: on ASCII input scale_path is total, and the
\* snippet of its error is the up to ten characters on either side of the
\* offending position
C30_TotalOnAscii ==
  (PathEnded /\ IsAscii(call.d)) =>
    \/ ret.st = "ok"
    \/ /\ CarriesError(ret)
       /\ ret.char_index = ret.pos
       /\ ret.snippet = Slice(call.d, (IF ret.pos > 10 THEN ret.pos - 10 ELSE 0) + 1,
                              Min2(ret.pos + 10, Len(call.d)))

=============================================================================
